---- MODULE Spec2Model ----
(***************************************************************************)
(* Model of the validator scripts under .github/instructions:              *)
(*   comprehensive_validator.py, workflow_validator.py,                    *)
(*   practical_validator.py, copilot_best_practices_validator.py (main),   *)
(*   orchestration_validator.py (main) and master_validator.py.            *)
(*                                                                         *)
(* The project tree is the variable fs.  A file's content is kept as the   *)
(* facts the validators test on it: whether it can be read, the shape of   *)
(* its leading frontmatter block, and the set of text snippets it holds.   *)
(* Percentages are kept in tenths of a percent (66.7% is 667).             *)
(***************************************************************************)
EXTENDS Integers, Sequences, FiniteSets, TLC

VARIABLES
    fs,         \* the project tree: directories, files, settings.json, JSON reports
    last,       \* what the last run did: script, exit code, report, aborted
    obj,        \* the object SpecTally and SpecAgg work on: a validator with its
                \* accumulators, or the master with its groups and scores
    edits,      \* number of outside modifications of the tree so far
    runs        \* number of script runs so far; it also stands for the
                \* second of the wall clock in the names of stamped reports

vars == <<fs, last, obj, edits, runs>>

(***************************************************************************)
(* Bounds of the exploration.                                              *)
(***************************************************************************)
MaxEdits == 1
MaxRuns == 2
MaxFindings == 3    \* findings of one severity on a validator object (SpecTally)
MaxGroups == 2      \* groups of one aggregate run (SpecAgg)
MaxComments == 1    \* comments in one settings document (SpecText)

(***************************************************************************)
(* Generic helpers.                                                        *)
(***************************************************************************)
\* the one element of a singleton; { e(x) : x \in {v} } computes v once
The(S) == CHOOSE x \in S : TRUE

\* the loop "for x in s: acc = Op(acc, x)"
Fold(Op(_, _), acc, s) ==
    LET f[i \in 0..Len(s)] ==
            IF i = 0 THEN acc
            ELSE The({ Op(prev, s[i]) : prev \in {f[i - 1]} })
    IN  f[Len(s)]

\* round(num / den * 100, 1) in tenths of a percent, for 0 <= num, 0 < den.
\* Python rounds the decimal value of the double to the nearest tenth, ties
\* to even; for the totals reached here a tie is always a multiple of 1/16,
\* which the double holds exactly.
RoundTenths(num, den) ==
    LET q == (num * 1000) \div den
        r == (num * 1000) % den
    IN  IF 2 * r < den THEN q
        ELSE IF 2 * r > den THEN q + 1
        ELSE IF q % 2 = 0 THEN q ELSE q + 1

(***************************************************************************)
(* Text snippets.  A file's text is a set of snippets; for each snippet    *)
(* the table gives the literal strings that occur in it (exact) and the    *)
(* strings and regular expressions that match its lower-cased form (lower).*)
(***************************************************************************)
\* The text each snippet stands for:
\*   sections        the headings About Me, About This Project, Tech Stack,
\*                   General Principles, Mandatory Code Standards
\*   orch_sections   the headings How to Use Specific Instructions, Automatic
\*                   Inference System, Quality Assurance, Critical
\*                   Anti-Patterns, Configuration Validation
\*   hierarchy_refs  .github/instructions/roles/ .github/instructions/tasks/
\*                   .github/instructions/prompts/
\*   role_list       the nine role names, data-scientist ... visualization-engineer
\*   code example    a fenced code block
\*   dos and donts   a line with a check mark (U+2705) and DO, and a line
\*                   with a cross mark (U+274C) and DON'T
\*   role_ds         role: "data-scientist"
\*   role sections   the headings Core Responsibilities, Key Principles
\*   steps           the heading Steps
\*   bp_report       the fixed text of the best-practices Markdown report
\*   improved        the headings Standard Workflows, Context Integration,
\*                   Specific Code Patterns, Anti-Patterns, Context
\*                   Management, Context Validation Checklist, the lines
\*                   Example VS Code tabs: and Step-by-step, and a fenced
\*                   python code block
\*   the others      their own name
SnippetExact(s) ==
    CASE s = "sections" ->
            { "About Me", "About This Project", "Tech Stack",
              "General Principles", "Mandatory Code Standards" }
      [] s = "orch_sections" ->
            { "How to Use Specific Instructions", "Automatic Inference System",
              "Quality Assurance", "Critical Anti-Patterns",
              "Configuration Validation", "Anti-Pattern" }
      [] s = "hierarchy_refs" ->
            { ".github/instructions/roles/", ".github/instructions/tasks/",
              ".github/instructions/prompts/" }
      [] s = "role_list" ->
            { "data-scientist", "data-engineer", "mlops-engineer",
              "frontend-developer", "cloud-architect", "qa-engineer",
              "business-analyst", "project-manager", "visualization-engineer" }
      [] s = "code example" -> { "code_fence" }
      [] s = "dos and donts" -> { "U+274C", "U+2705", "DON'T" }
      [] s = "role_ds" -> { "role: \"data-scientist\"", "data-scientist" }
      [] s = "role sections" -> { "Core Responsibilities", "Key Principles" }
      [] s = "steps" -> { "Step", "Steps" }
      [] s = "bp_report" -> { "Context", "U+2705" }
      [] s = "improved" ->
            { "Standard Workflows", "Context Integration",
              "Specific Code Patterns", "Anti-Patterns", "Anti-Pattern",
              "Context Management", "Context Validation Checklist",
              "Example VS Code tabs:", "Step-by-step", "python_fence",
              "code_fence", "Context", "Patterns", "Checklist", "Step" }
      [] s = "Python on GCP" -> { "Python", "GCP" }
      [] OTHER -> {}

SnippetLower(s) ==
    CASE s = "sections" -> { "tech stack", "project" }
      [] s = "orch_sections" -> { "anti.*pattern", "validation" }
      [] s = "hierarchy_refs" -> { "github" }
      [] s = "role_list" ->
            { "data-scientist", "qa-engineer", "cloud-architect", "project",
              "visualization" }
      [] s = "pandas notebook" -> { "pandas", "notebook" }
      [] s = "use context7" -> { "use context7", "context7", "context" }
      [] s = "pytest fixtures" -> { "pytest", "fixtures" }
      [] s = "pipeline monitoring" -> { "pipeline", "monitoring" }
      [] s = "error handling" -> { "error handling", "error.*handling" }
      [] s = "dos and donts" -> { "x.*don.*t" }
      [] s = "role_ds" -> { "data-scientist" }
      [] s = "bp_report" -> { "github", "context", "mcp" }
      [] s = "improved" -> { "context", "validation", "anti.*pattern", "python" }
      [] s = "Python on GCP" -> { "python", "gcp" }
      [] OTHER -> {}

\* needle in content
InText(needle, file) ==
    \/ \E s \in file.text : needle \in SnippetExact(s)
    \/ needle = "applyTo:" /\ file.fm = "map" /\ "applyTo" \in file.fields
\* needle in content.lower(), and re.search(pattern, content.lower())
InLower(needle, file) == \E s \in file.text : needle \in SnippetLower(s)

(***************************************************************************)
(* The project tree.                                                       *)
(*   fs.dirs     the directories that exist                                *)
(*   fs.files    path -> content, for the Markdown files and the scripts   *)
(*   fs.settings <<>> or <<content of .vscode/settings.json>>              *)
(*   fs.reports  name -> JSON object, for the report files that exist in   *)
(*               .github/instructions                                      *)
(* A path is <<directory, file name>>.                                     *)
(***************************************************************************)
Dirs == { "github", "vscode", "instructions", "roles", "tasks", "prompts" }

\* directories below a directory (itself included)
Below(d) ==
    CASE d = "github" -> { "github", "instructions", "roles", "tasks", "prompts" }
      [] d = "instructions" -> { "instructions", "roles", "tasks", "prompts" }
      [] OTHER -> { d }

Parent(d) ==
    CASE d \in { "roles", "tasks", "prompts" } -> "instructions"
      [] d = "instructions" -> "github"
      [] OTHER -> "root"

MainPath == <<"github", "copilot-instructions.md">>

FileExists(tree, p) == p \in DOMAIN tree.files
DirExists(tree, d) == d \in tree.dirs

\* frontmatter shapes: "none" the file does not start with ---; "open" no
\* closing --- follows; "yamlerr" yaml.safe_load raises YAMLError; "null"
\* the block is empty and safe_load returns None; "map" a mapping with the
\* keys in fields.
Doc(fm, fields, text) ==
    [readable |-> TRUE, fm |-> fm, fields |-> fields, text |-> text]

Unreadable == [readable |-> FALSE, fm |-> "none", fields |-> {}, text |-> {}]

(***************************************************************************)
(* A validator object: the accumulators set up by __init__.  raised is     *)
(* TRUE once a method has raised an exception that nothing inside          *)
(* validate_all catches; the methods after it are not run.                 *)
(***************************************************************************)
NewValidator ==
    [errors |-> <<>>, warnings |-> <<>>, success_count |-> 0, raised |-> FALSE]

AddError(v, msg) == [v EXCEPT !.errors = Append(@, msg)]
AddWarning(v, msg) == [v EXCEPT !.warnings = Append(@, msg)]
AddSuccess(v) == [v EXCEPT !.success_count = @ + 1]
Raise(v) == [v EXCEPT !.raised = TRUE]

(***************************************************************************)
(* comprehensive_validator.py : CopilotInstructionsValidator               *)
(***************************************************************************)
required_sections ==
    << "About Me", "About This Project", "Tech Stack",
       "General Principles", "Mandatory Code Standards" >>

expected_dirs == << "roles", "tasks", "prompts" >>

expected_roles ==
    << "data-scientist.md", "data-engineer.md", "mlops-engineer.md",
       "frontend-developer.md", "cloud-architect.md", "qa-engineer.md",
       "business-analyst.md", "project-manager.md",
       "visualization-engineer.md" >>

key_tasks ==
    << "code-generation.md", "test-generation.md", "code-review.md",
       "notebook-eda.md", "data-validation.md" >>

required_fields == << "applyTo", "description", "priority" >>

recommended_fields == << "title", "description", "mode", "tools", "role" >>

\* the *.prompt.md names the model knows, in the order glob lists them
PromptNames ==
    << "generate-eda-notebook.prompt.md", "create-gcp-architecture.prompt.md" >>

comprehensive_validate_main_instruction_file(tree, v0) ==
    IF ~FileExists(tree, MainPath) THEN AddError(v0, <<"main_missing">>)
    ELSE LET content == tree.files[MainPath]
             Section(v, section) ==
                 IF ~InText(section, content)
                 THEN AddError(v, <<"section_missing", section>>)
                 ELSE AddSuccess(v)
             v1 == Fold(Section, v0, required_sections)
         IN  IF ~content.readable THEN Raise(v0)
             ELSE IF InText(".github/instructions/roles/", content)
             THEN AddSuccess(v1)
             ELSE AddWarning(v1, <<"no_role_refs">>)

\* The value of a settings key: "true", "false", "string" (a non-empty
\* string), "one" (the number 1) or "absent" (no such key; get gives None).
\* a settings value is truthy unless it is absent, false, or empty
Truthy(val) == val \in { "true", "string", "one" }

\* actual == True: in Python the number 1 equals True
EqTrue(val) == val \in { "true", "one" }

comprehensive_validate_vscode_settings(tree, v0) ==
    IF tree.settings = <<>> THEN AddError(v0, <<"settings_missing">>)
    ELSE LET st == tree.settings[1]
             v1 == IF Truthy(st.useInstructionFiles)
                   THEN AddSuccess(v0)
                   ELSE AddError(v0, <<"useInstructionFiles_off">>)
             v2 == IF Truthy(st.promptFiles)
                   THEN AddSuccess(v1)
                   ELSE AddWarning(v1, <<"promptFiles_off">>)
         IN  IF ~st.readable THEN Raise(v0)
             ELSE IF st.parse = "error" THEN AddError(v0, <<"settings_json">>)
             ELSE IF st.parse = "nonobject" THEN Raise(v0)
             ELSE v2

comprehensive_validate_directory_structure(tree, v0) ==
    LET Dir(v, d) ==
            IF DirExists(tree, d) THEN AddSuccess(v)
            ELSE AddError(v, <<"dir_missing", d>>)
    IN  Fold(Dir, v0, expected_dirs)

comprehensive_validate_role_file_content(tree, p, v0) ==
    LET content == tree.files[p]
        Field(v, field) ==
            IF field \notin content.fields
            THEN AddWarning(v, <<"field_missing", field, p[2]>>)
            ELSE v
    IN  IF ~content.readable THEN Raise(v0)
        ELSE CASE content.fm = "none" -> v0
               [] content.fm = "open" -> v0
               [] content.fm = "yamlerr" -> AddError(v0, <<"yaml_error", p[2]>>)
               [] content.fm = "null" -> Raise(v0)
               [] OTHER -> Fold(Field, v0, required_fields)

comprehensive_validate_role_files(tree, v0) ==
    LET Role(v, role_file) ==
            IF v.raised THEN v
            ELSE IF FileExists(tree, <<"roles", role_file>>)
            THEN LET w == comprehensive_validate_role_file_content(
                              tree, <<"roles", role_file>>, v)
                 IN  IF w.raised THEN w ELSE AddSuccess(w)
            ELSE AddWarning(v, <<"role_missing", role_file>>)
    IN  IF ~DirExists(tree, "roles") THEN v0
        ELSE Fold(Role, v0, expected_roles)

comprehensive_validate_task_files(tree, v0) ==
    LET Task(v, task_file) ==
            IF FileExists(tree, <<"tasks", task_file>>) THEN AddSuccess(v)
            ELSE AddWarning(v, <<"task_missing", task_file>>)
    IN  IF ~DirExists(tree, "tasks") THEN v0
        ELSE Fold(Task, v0, key_tasks)

comprehensive_validate_prompt_file_content(tree, p, v0) ==
    LET content == tree.files[p]
        Field(v, field) ==
            IF field \in content.fields THEN AddSuccess(v)
            ELSE AddWarning(v, <<"recommended_missing", field, p[2]>>)
    IN  IF ~content.readable THEN Raise(v0)
        ELSE CASE content.fm = "none" -> v0
               [] content.fm = "open" -> v0
               [] content.fm = "yamlerr" -> AddError(v0, <<"yaml_error", p[2]>>)
               [] content.fm = "null" -> Raise(v0)
               [] OTHER -> Fold(Field, v0, recommended_fields)

comprehensive_validate_prompt_files(tree, v0) ==
    LET Prompt(v, name) ==
            IF v.raised \/ ~FileExists(tree, <<"prompts", name>>) THEN v
            ELSE comprehensive_validate_prompt_file_content(
                     tree, <<"prompts", name>>, v)
    IN  IF ~DirExists(tree, "prompts") THEN v0
        ELSE Fold(Prompt, v0, PromptNames)

\* the report dictionary shared by the three tallying validators
\* variant of _generate_report in which a warning also fails the run
TallyReport_warnings_fail(v, status_key, extra) ==
    LET total_checks == v.success_count + Len(v.errors) + Len(v.warnings)
        success_rate ==
            IF total_checks > 0 THEN RoundTenths(v.success_count, total_checks)
            ELSE 0
    IN  [status_key |-> status_key,
         status |-> IF Len(v.errors) = 0 /\ Len(v.warnings) = 0
                    THEN "PASS" ELSE "FAIL",
         success_rate |-> success_rate,
         total_checks |-> total_checks,
         successes |-> v.success_count,
         errors |-> Len(v.errors),
         warnings |-> Len(v.warnings),
         error_details |-> v.errors,
         warning_details |-> v.warnings,
         statistics |-> extra]

\* variant of _generate_report whose total leaves the warnings out
TallyReport_total_without_warnings(v, status_key, extra) ==
    LET total_checks == v.success_count + Len(v.errors)
        success_rate ==
            IF total_checks > 0 THEN RoundTenths(v.success_count, total_checks)
            ELSE 0
    IN  [status_key |-> status_key,
         status |-> IF Len(v.errors) = 0 THEN "PASS" ELSE "FAIL",
         success_rate |-> success_rate,
         total_checks |-> total_checks,
         successes |-> v.success_count,
         errors |-> Len(v.errors),
         warnings |-> Len(v.warnings),
         error_details |-> v.errors,
         warning_details |-> v.warnings,
         statistics |-> extra]

\* _generate_report, _generate_workflow_report, _generate_practical_report:
\* the tally the three reports share
TallyReport(v, status_key, extra) ==
    LET total_checks == v.success_count + Len(v.errors) + Len(v.warnings)
        success_rate ==
            IF total_checks > 0 THEN RoundTenths(v.success_count, total_checks)
            ELSE 0
    IN  [status_key |-> status_key,
         status |-> IF Len(v.errors) = 0 THEN "PASS" ELSE "FAIL",
         success_rate |-> success_rate,
         total_checks |-> total_checks,
         successes |-> v.success_count,
         errors |-> Len(v.errors),
         warnings |-> Len(v.warnings),
         error_details |-> v.errors,
         warning_details |-> v.warnings,
         statistics |-> extra]

comprehensive_generate_report(v) == TallyReport(v, "status", <<>>)

\* the methods of validate_all in call order; a method that raised ends it
Then(v, Method(_)) == IF v.raised THEN v ELSE Method(v)

\* variant of validate_all that starts from empty accumulators
comprehensive_validate_all_on_reset(tree, v0) ==
    LET m1(v) == comprehensive_validate_main_instruction_file(tree, v)
        m2(v) == comprehensive_validate_vscode_settings(tree, v)
        m3(v) == comprehensive_validate_directory_structure(tree, v)
        m4(v) == comprehensive_validate_role_files(tree, v)
        m5(v) == comprehensive_validate_task_files(tree, v)
        m6(v) == comprehensive_validate_prompt_files(tree, v)
    IN  Then(Then(Then(Then(Then(Then(NewValidator, m1), m2), m3), m4), m5), m6)

comprehensive_validate_all_on(tree, v0) ==
    LET m1(v) == comprehensive_validate_main_instruction_file(tree, v)
        m2(v) == comprehensive_validate_vscode_settings(tree, v)
        m3(v) == comprehensive_validate_directory_structure(tree, v)
        m4(v) == comprehensive_validate_role_files(tree, v)
        m5(v) == comprehensive_validate_task_files(tree, v)
        m6(v) == comprehensive_validate_prompt_files(tree, v)
    IN  Then(Then(Then(Then(Then(Then(v0, m1), m2), m3), m4), m5), m6)

comprehensive_validate_all(tree) ==
    comprehensive_validate_all_on(tree, NewValidator)

(***************************************************************************)
(* Files that Path.rglob("*.md") lists under .github/instructions.         *)
(***************************************************************************)
ScriptNames ==
    { "comprehensive_validator.py", "orchestration_validator.py",
      "workflow_validator.py", "practical_validator.py",
      "copilot_best_practices_validator.py", "master_validator.py",
      "validate_instructions_fixed.py" }

IsMd(p) == p[2] \notin ScriptNames

InstructionMdFiles(tree) ==
    { p \in DOMAIN tree.files : p[1] \in Below("instructions") /\ IsMd(p) }

AnyUnreadable(tree, paths) == \E p \in paths : ~tree.files[p].readable

(***************************************************************************)
(* workflow_validator.py : WorkflowValidator                               *)
(***************************************************************************)
scenarios ==
    << [name |-> "Data Science EDA Workflow", role |-> "data-scientist",
        task |-> "notebook-eda",
        expected_tools |-> <<"pandas", "plotly", "jupyter">>,
        expected_outputs |-> <<"notebook", "visualizations", "insights">>,
        dependencies |-> <<"data-validation">>],
       [name |-> "QA Test Generation Workflow", role |-> "qa-engineer",
        task |-> "test-generation",
        expected_tools |-> <<"pytest", "context7", "consult7">>,
        expected_outputs |-> <<"test_files", "fixtures", "mocks">>,
        dependencies |-> <<"code-generation">>],
       [name |-> "Data Engineering Pipeline Workflow", role |-> "data-engineer",
        task |-> "etl-pipeline-development",
        expected_tools |-> <<"duckduckgo", "bigquery", "terraform">>,
        expected_outputs |-> <<"pipeline", "infrastructure", "monitoring">>,
        dependencies |-> <<"architecture-design">>],
       [name |-> "Frontend Development Workflow", role |-> "frontend-developer",
        task |-> "ui-development",
        expected_tools |-> <<"react", "typescript", "tailwind">>,
        expected_outputs |-> <<"components", "styles", "tests">>,
        dependencies |-> <<"code-generation">>] >>

\* file names: f"{role}.md"
Md(stem) ==
    CASE stem = "data-scientist" -> "data-scientist.md"
      [] stem = "data-engineer" -> "data-engineer.md"
      [] stem = "mlops-engineer" -> "mlops-engineer.md"
      [] stem = "frontend-developer" -> "frontend-developer.md"
      [] stem = "cloud-architect" -> "cloud-architect.md"
      [] stem = "qa-engineer" -> "qa-engineer.md"
      [] stem = "notebook-eda" -> "notebook-eda.md"
      [] stem = "test-generation" -> "test-generation.md"
      [] stem = "etl-pipeline-development" -> "etl-pipeline-development.md"
      [] stem = "ui-development" -> "ui-development.md"
      [] stem = "data-validation" -> "data-validation.md"
      [] stem = "code-generation" -> "code-generation.md"
      [] stem = "architecture-design" -> "architecture-design.md"

mcp_patterns ==
    << <<"use context7", "context7.*latest.*patterns", "context7.*documentation">>,
       <<"consult7.*analyze", "consult7.*existing.*patterns", "consult7.*codebase">>,
       <<"duckduckgo.*search", "duckduckgo.*best.*practices",
         "duckduckgo.*current.*practices">> >>

collaborations ==
    << <<"data-scientist", "data-engineer", <<"data pipelines", "data quality">> >>,
       <<"data-scientist", "mlops-engineer", <<"model deployment", "monitoring">> >>,
       <<"qa-engineer", "data-scientist", <<"testing", "validation">> >>,
       <<"frontend-developer", "data-scientist", <<"dashboard", "visualization">> >>,
       <<"cloud-architect", "data-engineer", <<"infrastructure", "scaling">> >> >>

error_patterns ==
    << "try.*except", "error.*handling", "exception.*handling",
       "validate.*input", "raise.*error", "x.*don.*t", "anti.*pattern" >>
\* ("x.*don.*t" stands for the pattern whose first character is U+274C)

context_keywords ==
    << "context", "workspace", "project", "gasco", "inventory", "tech stack",
       "architecture", "business domain" >>

mcp_tools == << "context7", "consult7", "duckduckgo", "github" >>

Range(s) == { s[i] : i \in DOMAIN s }

workflow_validate_scenario(tree, v0, scenario) ==
    LET role_file == <<"roles", Md(scenario.role)>>
        task_file == <<"tasks", Md(scenario.task)>>
        role_content == tree.files[role_file]
        task_content == tree.files[task_file]
        Found(word) == InLower(word, role_content) \/ InLower(word, task_content)
        Tool(v, tool) ==
            IF Found(tool) THEN v
            ELSE AddWarning(v, <<"tool_missing", tool, scenario.name>>)
        v1 == Fold(Tool, v0, scenario.expected_tools)
        tools_found == Cardinality({ i \in DOMAIN scenario.expected_tools :
                                       Found(scenario.expected_tools[i]) })
        v2 == IF tools_found > 0 THEN AddSuccess(v1) ELSE v1
        outputs_found == Cardinality({ i \in DOMAIN scenario.expected_outputs :
                                         Found(scenario.expected_outputs[i]) })
        v3 == IF outputs_found > 0 THEN AddSuccess(v2) ELSE v2
        Dependency(v, dependency) ==
            IF FileExists(tree, <<"tasks", Md(dependency)>>) THEN AddSuccess(v)
            ELSE AddWarning(v, <<"dependency_missing", dependency, scenario.name>>)
    IN  IF ~FileExists(tree, role_file)
        THEN AddError(v0, <<"role_file_missing", scenario.name>>)
        ELSE IF ~FileExists(tree, task_file)
        THEN AddError(v0, <<"task_file_missing", scenario.name>>)
        ELSE IF ~role_content.readable \/ ~task_content.readable THEN Raise(v0)
        ELSE Fold(Dependency, v3, scenario.dependencies)

workflow_validate_mcp_integration_flows(tree, v0) ==
    LET files == InstructionMdFiles(tree)
        \* one entry of mcp_files per file and tool with a matching pattern
        hits == { <<p, t>> \in files \X DOMAIN mcp_patterns :
                    \E pattern \in Range(mcp_patterns[t]) :
                        InLower(pattern, tree.files[p]) }
        v1 == [v0 EXCEPT !.success_count = @ + Cardinality(hits)]
    IN  IF AnyUnreadable(tree, files) THEN Raise(v0)
        ELSE IF hits # {} THEN v1
        ELSE AddWarning(v1, <<"no_mcp_patterns">>)

workflow_validate_cross_role_collaboration(tree, v0) ==
    LET Collab(v, c) ==
            LET role1_file == <<"roles", Md(c[1])>>
                role2_file == <<"roles", Md(c[2])>>
                content1 == tree.files[role1_file]
                content2 == tree.files[role2_file]
            IN  IF v.raised THEN v
                ELSE IF FileExists(tree, role1_file) /\ FileExists(tree, role2_file)
                THEN IF ~content1.readable \/ ~content2.readable THEN Raise(v)
                     ELSE IF \E keyword \in Range(c[3]) :
                               InLower(keyword, content1) /\ InLower(keyword, content2)
                     THEN AddSuccess(v)
                     ELSE AddWarning(v, <<"weak_collaboration", c[1], c[2]>>)
                ELSE v
    IN  Fold(Collab, v0, collaborations)

workflow_validate_error_handling_patterns(tree, v0) ==
    LET files == InstructionMdFiles(tree)
        files_with_error_handling ==
            Cardinality({ p \in files :
                            \E pattern \in Range(error_patterns) :
                                InLower(pattern, tree.files[p]) })
    IN  IF AnyUnreadable(tree, files) THEN Raise(v0)
        ELSE [v0 EXCEPT !.success_count = @ + files_with_error_handling]

workflow_validate_context_propagation(tree, v0) ==
    LET files == InstructionMdFiles(tree)
        main_content == tree.files[MainPath]
        files_with_context ==
            Cardinality({ p \in files :
                            \E keyword \in Range(context_keywords) :
                                /\ InLower(keyword, main_content)
                                /\ InLower(keyword, tree.files[p]) })
    IN  IF ~FileExists(tree, MainPath) THEN v0
        ELSE IF ~main_content.readable \/ AnyUnreadable(tree, files) THEN Raise(v0)
        ELSE [v0 EXCEPT !.success_count = @ + files_with_context]

\* variant of _scenario_valid that looks at the role file only
workflow_scenario_valid_role_only(tree, scenario) ==
    FileExists(tree, <<"roles", Md(scenario.role)>>)

workflow_scenario_valid(tree, scenario) ==
    /\ FileExists(tree, <<"roles", Md(scenario.role)>>)
    /\ FileExists(tree, <<"tasks", Md(scenario.task)>>)

workflow_count_mcp_integrations(tree) ==
    Cardinality({ p \in InstructionMdFiles(tree) :
                    \E tool \in Range(mcp_tools) : InLower(tool, tree.files[p]) })

workflow_count_collaborations == 3

workflow_generate_workflow_report(tree, v) ==
    TallyReport(v, "workflow_status",
        << [total_scenarios |-> Len(scenarios),
            scenarios_validated |->
                Cardinality({ i \in DOMAIN scenarios :
                                workflow_scenario_valid(tree, scenarios[i]) }),
            mcp_integrations |-> workflow_count_mcp_integrations(tree),
            cross_role_collaborations |-> workflow_count_collaborations] >>)

workflow_validate_workflows_on(tree, v0) ==
    LET Scenario(v, scenario) ==
            IF v.raised THEN v ELSE workflow_validate_scenario(tree, v, scenario)
        m2(v) == workflow_validate_mcp_integration_flows(tree, v)
        m3(v) == workflow_validate_cross_role_collaboration(tree, v)
        m4(v) == workflow_validate_error_handling_patterns(tree, v)
        m5(v) == workflow_validate_context_propagation(tree, v)
    IN  Then(Then(Then(Then(Fold(Scenario, v0, scenarios), m2), m3), m4), m5)

workflow_validate_workflows(tree) ==
    workflow_validate_workflows_on(tree, NewValidator)

(***************************************************************************)
(* practical_validator.py : PracticalOrchestrationValidator                *)
(***************************************************************************)
practical_tests ==
    << [name |-> "Data Science EDA Generation", role |-> "data-scientist",
        task |-> "notebook-eda",
        expected_elements |->
            <<"pandas", "plotly", "type hints", "docstrings", "random_state=42",
              "business context", "gasco">>,
        validation_criteria |->
            <<"main_instructions_loaded", "role_file_accessible",
              "task_file_accessible", "prompt_file_exists", "mcp_tools_mentioned">>],
       [name |-> "QA Test Suite Generation", role |-> "qa-engineer",
        task |-> "test-generation",
        expected_elements |->
            <<"pytest", "fixtures", "parametrize", "context7", "consult7",
              "type hints", "error handling">>,
        validation_criteria |->
            <<"role_task_alignment", "mcp_integration_complete",
              "example_patterns_available", "anti_patterns_documented">>],
       [name |-> "Cloud Architecture Design", role |-> "cloud-architect",
        task |-> "architecture-design",
        expected_elements |->
            <<"terraform", "bigquery", "security", "iam", "cost optimization",
              "monitoring", "gcp">>,
        validation_criteria |->
            <<"prompt_file_functional", "tech_stack_consistency",
              "security_considerations", "best_practices_included">>],
       [name |-> "Cross-Role Collaboration", role |-> "data-scientist",
        task |-> "etl-pipeline-development",
        expected_elements |->
            <<"collaboration", "handoff", "data quality", "pipeline",
              "monitoring", "documentation">>,
        validation_criteria |->
            <<"cross_role_references", "shared_vocabulary",
              "integration_points", "documentation_standards">>] >>

simplified_criteria ==
    { "prompt_file_functional", "tech_stack_consistency",
      "security_considerations", "best_practices_included",
      "cross_role_references", "shared_vocabulary", "integration_points",
      "documentation_standards" }

key_context == << "gasco", "inventory", "python", "gcp", "data science" >>

real_world_elements ==
    << "error handling", "production ready", "scalable", "maintainable",
       "documentation", "testing", "security", "performance", "monitoring" >>

\* f'role: "{role}"' and f"role: '{role}'"
RoleKeys(role) ==
    CASE role = "data-scientist" ->
            { "role: \"data-scientist\"", "role: 'data-scientist'" }
      [] role = "qa-engineer" -> { "role: \"qa-engineer\"", "role: 'qa-engineer'" }
      [] role = "cloud-architect" ->
            { "role: \"cloud-architect\"", "role: 'cloud-architect'" }
      [] OTHER -> {}

\* test.role.replace("-", "_") and test.role.replace("_", "-")
RoleSpellings(role) ==
    CASE role = "data-scientist" -> { "data_scientist", "data-scientist" }
      [] role = "qa-engineer" -> { "qa_engineer", "qa-engineer" }
      [] role = "cloud-architect" -> { "cloud_architect", "cloud-architect" }
      [] OTHER -> {}

\* *.md files of the prompts directory, which here are the *.prompt.md files
PromptFiles(tree) ==
    SelectSeq([i \in DOMAIN PromptNames |-> <<"prompts", PromptNames[i]>>],
              LAMBDA p : FileExists(tree, p))

\* _get_relevant_files: [raised, files]
practical_get_relevant_files(tree, role, task) ==
    LET role_file == <<"roles", Md(role)>>
        task_file == <<"tasks", Md(task)>>
        prompts == PromptFiles(tree)
        related == SelectSeq(prompts,
                       LAMBDA p : \E k \in RoleKeys(role) : InText(k, tree.files[p]))
    IN  [raised |-> AnyUnreadable(tree, Range(prompts)),
         files |-> (IF FileExists(tree, MainPath) THEN <<MainPath>> ELSE <<>>)
                   \o (IF FileExists(tree, role_file) THEN <<role_file>> ELSE <<>>)
                   \o (IF FileExists(tree, task_file) THEN <<task_file>> ELSE <<>>)
                   \o related]

\* the file the loop over `files` stops at because `Hit` returns from it,
\* or 0; reading a file before that one raises when it cannot be read
FirstHit(tree, files, Hit(_)) ==
    LET hits == { i \in DOMAIN files : tree.files[files[i]].readable /\ Hit(files[i]) }
        bad == { i \in DOMAIN files : ~tree.files[files[i]].readable }
        Min(S) == CHOOSE x \in S : \A y \in S : x <= y
    IN  [found |-> hits # {} /\ (bad = {} \/ Min(hits) < Min(bad)),
         raised |-> bad # {} /\ (hits = {} \/ Min(bad) < Min(hits))]

\* _check_validation_criterion: [raised, ok]
practical_check_validation_criterion(tree, criterion, test) ==
    LET role_file == <<"roles", Md(test.role)>>
        task_file == <<"tasks", Md(test.task)>>
        rel == practical_get_relevant_files(tree, test.role, test.task)
        Scan(files, Hit(_)) ==
            LET r == FirstHit(tree, files, Hit)
            IN  [raised |-> r.raised, ok |-> r.found]
        Plain(b) == [raised |-> FALSE, ok |-> b]
    IN  CASE criterion = "main_instructions_loaded" ->
                Plain(FileExists(tree, MainPath))
          [] criterion = "role_file_accessible" -> Plain(FileExists(tree, role_file))
          [] criterion = "task_file_accessible" -> Plain(FileExists(tree, task_file))
          [] criterion = "prompt_file_exists" ->
                Scan(PromptFiles(tree),
                     LAMBDA p : \E k \in RoleSpellings(test.role) :
                                    InLower(k, tree.files[p]))
          [] criterion = "mcp_tools_mentioned" ->
                IF rel.raised THEN [raised |-> TRUE, ok |-> FALSE]
                ELSE Scan(rel.files,
                          LAMBDA p : \E tool \in Range(mcp_tools) :
                                         InLower(tool, tree.files[p]))
          [] criterion = "role_task_alignment" ->
                IF ~FileExists(tree, role_file) THEN Plain(FALSE)
                ELSE IF ~tree.files[role_file].readable
                THEN [raised |-> TRUE, ok |-> FALSE]
                ELSE Plain(InText("applyTo:", tree.files[role_file]))
          [] criterion = "mcp_integration_complete" ->
                IF ~FileExists(tree, task_file) THEN Plain(FALSE)
                ELSE IF ~tree.files[task_file].readable
                THEN [raised |-> TRUE, ok |-> FALSE]
                ELSE Plain(\E k \in {"mcp", "context7", "consult7"} :
                               InLower(k, tree.files[task_file]))
          [] criterion = "example_patterns_available" ->
                IF rel.raised THEN [raised |-> TRUE, ok |-> FALSE]
                ELSE Scan(rel.files, LAMBDA p : InText("code_fence", tree.files[p]))
          [] criterion = "anti_patterns_documented" ->
                IF rel.raised THEN [raised |-> TRUE, ok |-> FALSE]
                ELSE Scan(rel.files,
                          LAMBDA p : /\ InText("U+274C", tree.files[p])
                                     /\ InText("U+2705", tree.files[p]))
          [] criterion \in simplified_criteria -> Plain(TRUE)
          [] OTHER -> Plain(FALSE)

practical_execute_practical_test(tree, v0, test) ==
    LET rel == practical_get_relevant_files(tree, test.role, test.task)
        InCombined(element) ==
            \E p \in Range(rel.files) : InLower(element, tree.files[p])
        elements == test.expected_elements
        criteria == test.validation_criteria
        elements_found == Cardinality({ i \in DOMAIN elements : InCombined(elements[i]) })
        checks == [i \in DOMAIN criteria |->
                      practical_check_validation_criterion(tree, criteria[i], test)]
        criteria_met == Cardinality({ i \in DOMAIN criteria : checks[i].ok })
        issues ==
            [i \in 1..Len(SelectSeq(elements, LAMBDA e : ~InCombined(e))) |->
                <<"element_missing", test.name,
                  SelectSeq(elements, LAMBDA e : ~InCombined(e))[i]>>]
            \o
            LET unmet == { i \in DOMAIN criteria : ~checks[i].ok }
                sel == SelectSeq([i \in DOMAIN criteria |-> i], LAMBDA i : i \in unmet)
            IN  [j \in DOMAIN sel |-> <<"criterion_unmet", test.name, criteria[sel[j]]>>]
        total_checks == Len(elements) + Len(criteria)
        v1 == [v0 EXCEPT !.success_count = @ + elements_found + criteria_met]
    IN  IF rel.raised \/ AnyUnreadable(tree, Range(rel.files)) THEN Raise(v0)
        ELSE IF \E i \in DOMAIN criteria : checks[i].raised THEN Raise(v0)
        \* success_rate >= 80
        ELSE IF (elements_found + criteria_met) * 100 >= 80 * total_checks THEN v1
        ELSE [v1 EXCEPT !.warnings = @ \o issues]

practical_validate_settings_instruction_sync(tree, v0) ==
    LET st == tree.settings[1]
        v1 == IF Truthy(st.useInstructionFiles)
              THEN AddSuccess(v0)
              ELSE AddError(v0, <<"useInstructionFiles_off">>)
        Ref(v, ref) ==
            IF FileExists(tree, ref) THEN AddSuccess(v)
            ELSE AddError(v, <<"referenced_file_missing", ref[1], ref[2]>>)
    IN  IF tree.settings = <<>> THEN AddError(v0, <<"settings_missing">>)
        ELSE IF ~st.readable THEN Raise(v0)
        ELSE IF st.parse = "error" THEN AddError(v0, <<"settings_json">>)
        ELSE IF st.parse = "nonobject" THEN Raise(v0)
        ELSE Fold(Ref, v1, st.instructions)

practical_validate_prompt_discoverability(tree, v0) ==
    LET Prompt(v, p) ==
            LET content == tree.files[p]
            IN  IF v.raised THEN v
                ELSE IF ~content.readable THEN Raise(v)
                ELSE IF content.fm = "none"
                THEN AddWarning(v, <<"no_yaml_metadata", p[2]>>)
                ELSE IF content.fm = "open"
                THEN AddWarning(v, <<"malformed_yaml_metadata", p[2]>>)
                ELSE AddSuccess(v)
    IN  IF ~DirExists(tree, "prompts")
        THEN AddWarning(v0, <<"prompts_dir_missing">>)
        ELSE Fold(Prompt, v0, PromptFiles(tree))

practical_validate_context_inheritance(tree, v0) ==
    LET files == InstructionMdFiles(tree)
        Item(v, context_item) ==
            LET propagated_count ==
                    Cardinality({ p \in files : InLower(context_item, tree.files[p]) })
            IN  IF v.raised THEN v
                ELSE IF ~InLower(context_item, tree.files[MainPath]) THEN v
                ELSE IF AnyUnreadable(tree, files) THEN Raise(v)
                ELSE IF propagated_count > 3 THEN AddSuccess(v)
                ELSE AddWarning(v, <<"context_not_propagated", context_item>>)
    IN  IF ~FileExists(tree, MainPath) THEN v0
        ELSE IF ~tree.files[MainPath].readable THEN Raise(v0)
        ELSE Fold(Item, v0, key_context)

practical_validate_real_world_scenarios(tree, v0) ==
    LET files == InstructionMdFiles(tree)
        Element(v, element) ==
            IF \E p \in files : InLower(element, tree.files[p]) THEN AddSuccess(v)
            ELSE AddWarning(v, <<"real_world_element_missing", element>>)
    IN  IF AnyUnreadable(tree, files) THEN Raise(v0)
        ELSE Fold(Element, v0, real_world_elements)

practical_generate_practical_report(tree, v) ==
    TallyReport(v, "practical_status",
        << [tests_executed |-> Len(practical_tests),
            integration_validations |-> 4,
            files_analyzed |-> Cardinality(InstructionMdFiles(tree)),
            cross_references_validated |-> v.success_count] >>)

practical_validate_practical_orchestration_on(tree, v0) ==
    LET Test(v, test) ==
            IF v.raised THEN v ELSE practical_execute_practical_test(tree, v, test)
        m2(v) == practical_validate_settings_instruction_sync(tree, v)
        m3(v) == practical_validate_prompt_discoverability(tree, v)
        m4(v) == practical_validate_context_inheritance(tree, v)
        m5(v) == practical_validate_real_world_scenarios(tree, v)
    IN  Then(Then(Then(Then(Fold(Test, v0, practical_tests), m2), m3), m4), m5)

practical_validate_practical_orchestration(tree) ==
    practical_validate_practical_orchestration_on(tree, NewValidator)

(***************************************************************************)
(* orchestration_validator.py : CopilotOrchestrationValidator              *)
(* A list of checks is kept as its tally [passed, failed]; raised is TRUE  *)
(* when the method raised an exception it does not catch.                  *)
(***************************************************************************)
NoChecks == [passed |-> 0, failed |-> 0, raised |-> FALSE]

Check(c, success) ==
    IF success THEN [c EXCEPT !.passed = @ + 1] ELSE [c EXCEPT !.failed = @ + 1]

expected_locations == << "instructions", "prompts", "roles", "tasks" >>

orch_required_sections ==
    << "About Me", "About This Project", "Tech Stack",
       "How to Use Specific Instructions", "Automatic Inference System",
       "Quality Assurance", "Critical Anti-Patterns", "Configuration Validation" >>

hierarchy_refs ==
    << ".github/instructions/roles/", ".github/instructions/tasks/",
       ".github/instructions/prompts/" >>

orch_expected_roles ==
    << "data-scientist.md", "data-engineer.md", "mlops-engineer.md",
       "cloud-architect.md", "frontend-developer.md", "qa-engineer.md",
       "business-analyst.md", "project-manager.md",
       "visualization-engineer.md" >>

essential_tasks ==
    << "code-generation.md", "code-review.md", "context-management.md",
       "notebook-eda.md", "architecture-design.md", "test-generation.md" >>

essential_prompts ==
    << "generate-eda-notebook.prompt.md", "create-gcp-architecture.prompt.md" >>

\* Path(name).stem for the role files
Stem(name) ==
    CASE name = "data-scientist.md" -> "data-scientist"
      [] name = "data-engineer.md" -> "data-engineer"
      [] name = "mlops-engineer.md" -> "mlops-engineer"
      [] name = "frontend-developer.md" -> "frontend-developer"
      [] name = "cloud-architect.md" -> "cloud-architect"
      [] name = "qa-engineer.md" -> "qa-engineer"
      [] name = "business-analyst.md" -> "business-analyst"
      [] name = "project-manager.md" -> "project-manager"
      [] name = "visualization-engineer.md" -> "visualization-engineer"
      [] OTHER -> name

Count(S) == Cardinality(S)

orchestration_validate_directory_structure(tree) ==
    LET Dir(c, d) == Check(c, DirExists(tree, d))
    IN  Fold(Dir, NoChecks,
             << "github", "instructions", "roles", "tasks", "prompts", "vscode" >>)

orchestration_validate_vscode_settings(tree) ==
    LET st == tree.settings[1]
        c1 == Check(NoChecks, EqTrue(st.useInstructionFiles))
        c2 == Check(c1, EqTrue(st.promptFiles))
        Instruction(c, ref) == Check(c, FileExists(tree, ref))
        c3 == IF Len(st.instructions) > 0
              THEN Fold(Instruction, Check(c2, TRUE), st.instructions)
              ELSE Check(c2, FALSE)
        Location(c, location) == Check(c, location \in st.promptFilesLocations)
        c4 == Fold(Location, c3, expected_locations)
    IN  IF tree.settings = <<>> THEN Check(NoChecks, FALSE)
        ELSE IF ~st.readable THEN [NoChecks EXCEPT !.raised = TRUE]
        ELSE IF st.parse = "error" THEN Check(NoChecks, FALSE)
        ELSE IF st.parse = "nonobject" THEN [NoChecks EXCEPT !.raised = TRUE]
        ELSE IF st.copilotEnable = "nondict" THEN c4
        ELSE Check(c4, st.copilotEnable = "secure")

orchestration_validate_main_instructions(tree) ==
    LET content == tree.files[MainPath]
        Has(c, needle) == Check(c, InText(needle, content))
    IN  IF ~FileExists(tree, MainPath) THEN Check(NoChecks, FALSE)
        ELSE IF ~content.readable THEN [NoChecks EXCEPT !.raised = TRUE]
        ELSE Fold(Has, Fold(Has, NoChecks, orch_required_sections), hierarchy_refs)

\* sum([...]) of the quality flags of a file
Score(flags) == Cardinality({ i \in DOMAIN flags : flags[i] })

orchestration_validate_role_files(tree) ==
    LET Role(c, role_file) ==
            LET p == <<"roles", role_file>>
                content == tree.files[p]
                quality_score ==
                    Score(<< \E sec \in {"Tech Stack", "Core Responsibilities",
                                        "Key Principles"} : InText(sec, content),
                             content.fm # "none",
                             InText("code_fence", content) >>)
            IN  IF c.raised THEN c
                ELSE IF ~FileExists(tree, p) THEN Check(c, FALSE)
                ELSE IF ~content.readable THEN [c EXCEPT !.raised = TRUE]
                ELSE Check(Check(c, TRUE), quality_score >= 2)
    IN  IF ~DirExists(tree, "roles") THEN Check(NoChecks, FALSE)
        ELSE Fold(Role, NoChecks, orch_expected_roles)

orchestration_validate_task_files(tree) ==
    LET Task(c, task_file) ==
            LET p == <<"tasks", task_file>>
                content == tree.files[p]
                quality_score ==
                    Score(<< content.fm # "none",
                             \E ind \in {"Rules", "Steps", "Examples", "Patterns",
                                        "Checklist"} : InText(ind, content),
                             InText("code_fence", content),
                             \E a \in {"Anti-Pattern", "DON'T", "U+274C"} :
                                 InText(a, content) >>)
            IN  IF c.raised THEN c
                ELSE IF ~FileExists(tree, p) THEN Check(c, FALSE)
                ELSE IF ~content.readable THEN [c EXCEPT !.raised = TRUE]
                ELSE Check(Check(c, TRUE), quality_score >= 3)
    IN  IF ~DirExists(tree, "tasks") THEN Check(NoChecks, FALSE)
        ELSE Fold(Task, NoChecks, essential_tasks)

orchestration_validate_prompt_files(tree) ==
    LET Prompt(c, prompt_file) ==
            LET p == <<"prompts", prompt_file>>
                content == tree.files[p]
                quality_score ==
                    Score(<< content.fm # "none",
                             InText("Step", content) \/ InText("step", content),
                             InText("code_fence", content),
                             InText("Context", content) \/ InText("context", content) >>)
            IN  IF c.raised THEN c
                ELSE IF ~FileExists(tree, p) THEN Check(c, FALSE)
                ELSE IF ~content.readable THEN [c EXCEPT !.raised = TRUE]
                ELSE Check(Check(c, TRUE), quality_score >= 3)
    IN  IF ~DirExists(tree, "prompts") THEN Check(NoChecks, FALSE)
        ELSE Fold(Prompt, Check(NoChecks, Len(PromptFiles(tree)) > 0),
                  essential_prompts)

orchestration_validate_orchestration_consistency(tree) ==
    LET st == tree.settings[1]
        c1 == IF tree.settings = <<>> THEN NoChecks
              ELSE IF ~st.readable \/ st.parse # "ok" THEN Check(NoChecks, FALSE)
              ELSE Check(NoChecks,
                         \A i \in DOMAIN st.instructions :
                             FileExists(tree, st.instructions[i]))
        role_files == { p \in DOMAIN tree.files : p[1] = "roles" }
        role_refs_in_main ==
            { p \in role_files : InText(Stem(p[2]), tree.files[MainPath]) }
        \* role_coverage >= 0.8
        covered == /\ role_files # {}
                   /\ 10 * Count(role_refs_in_main) >= 8 * Count(role_files)
    IN  IF DirExists(tree, "roles") /\ DirExists(tree, "tasks")
           /\ FileExists(tree, MainPath)
        THEN IF ~tree.files[MainPath].readable THEN [c1 EXCEPT !.raised = TRUE]
             ELSE Check(c1, covered)
        ELSE c1

\* run_validation: the tally over the seven categories
orchestration_run_validation(tree) ==
    LET cats == << orchestration_validate_directory_structure(tree),
                   orchestration_validate_vscode_settings(tree),
                   orchestration_validate_main_instructions(tree),
                   orchestration_validate_role_files(tree),
                   orchestration_validate_task_files(tree),
                   orchestration_validate_prompt_files(tree),
                   orchestration_validate_orchestration_consistency(tree) >>
        Sum(f(_)) == Fold(LAMBDA a, c : a + f(c), 0, cats)
        total_failed == Sum(LAMBDA c : c.failed)
    IN  [raised |-> \E i \in DOMAIN cats : cats[i].raised,
         total_passed |-> Sum(LAMBDA c : c.passed),
         total_failed |-> total_failed,
         status |-> IF total_failed = 0 THEN "perfect"
                    ELSE IF total_failed <= 3 THEN "good"
                    ELSE IF total_failed <= 6 THEN "moderate"
                    ELSE "poor"]

(***************************************************************************)
(* The main() of each script, run with the project root as working         *)
(* directory.  The result is the tree it leaves, its exit code, the report *)
(* dictionary it built (if it got that far) and whether it was aborted by  *)
(* an exception.                                                           *)
(***************************************************************************)
Outcome(tree, returncode, report, aborted) ==
    [fs |-> tree, returncode |-> returncode, report |-> report,
     aborted |-> aborted, trace |-> <<>>]

WriteReport(tree, name, report) ==
    [tree EXCEPT !.reports =
        [n \in DOMAIN @ \cup {name} |-> IF n = name THEN report ELSE @[n]]]

\* variant of main that exits with 0 whatever the status
TallyMain_exit_zero(tree, v, report, name) ==
    IF v.raised THEN Outcome(tree, 1, <<>>, TRUE)
    ELSE IF ~DirExists(tree, "instructions") THEN Outcome(tree, 1, <<report>>, TRUE)
    ELSE Outcome(WriteReport(tree, name, report), 0, <<report>>, FALSE)

\* validate, open(report_file, "w") in .github/instructions, json.dump, exit
TallyMain(tree, v, report, name) ==
    IF v.raised THEN Outcome(tree, 1, <<>>, TRUE)
    ELSE IF ~DirExists(tree, "instructions") THEN Outcome(tree, 1, <<report>>, TRUE)
    ELSE Outcome(WriteReport(tree, name, report),
                 IF report.status = "PASS" THEN 0 ELSE 1, <<report>>, FALSE)

\* the report is built only when validation returned
comprehensive_main(tree) ==
    The({ The({ TallyMain(tree, v, report, "validation_report.json") :
                  report \in { IF v.raised THEN <<>>
                               ELSE comprehensive_generate_report(v) } }) :
            v \in { comprehensive_validate_all(tree) } })

workflow_main(tree) ==
    The({ The({ TallyMain(tree, v, report, "workflow_validation_report.json") :
                  report \in { IF v.raised THEN <<>>
                               ELSE workflow_generate_workflow_report(tree, v) } }) :
            v \in { workflow_validate_workflows(tree) } })

practical_main(tree) ==
    The({ The({ TallyMain(tree, v, report, "practical_validation_report.json") :
                  report \in { IF v.raised THEN <<>>
                               ELSE practical_generate_practical_report(tree, v) } }) :
            v \in { practical_validate_practical_orchestration(tree) } })

\* an exception out of run_validation ends the interpreter with code 1
orchestration_main(tree) ==
    LET results == orchestration_run_validation(tree)
    IN  IF results.raised THEN Outcome(tree, 1, <<>>, TRUE)
        ELSE Outcome(tree,
                     IF results.status \in {"perfect", "good"} THEN 0 ELSE 1,
                     <<results>>, FALSE)

(***************************************************************************)
(* validate_instructions_fixed.py.  Each check function returns a list of  *)
(* checks, kept as its tally like the lists of the orchestration validator.*)
(***************************************************************************)
\* load_vscode_settings: whether it raises instead of returning the settings
fixed_load_vscode_settings_raises(tree) ==
    \/ tree.settings = <<>>
    \/ ~tree.settings[1].readable
    \/ tree.settings[1].parse = "error"

fixed_expected_roles ==
    << "data-scientist.md", "data-engineer.md", "mlops-engineer.md" >>

fixed_expected_tasks ==
    << "code-generation.md", "code-review.md", "context-management.md" >>

fixed_expected_prompts ==
    << "generate-eda-notebook.prompt.md", "create-gcp-architecture.prompt.md" >>

\* copilotEnable: "secure" and "plain" are objects (with and without a
\* security pattern), "nondict" is a value that is neither an object nor true
fixed_check_copilot_config(tree) ==
    LET st == tree.settings[1]
        c1 == Check(NoChecks, EqTrue(st.useInstructionFiles))
    IN  IF st.parse = "nonobject" THEN [NoChecks EXCEPT !.raised = TRUE]
        ELSE Check(c1, st.copilotEnable # "nondict")

fixed_check_instruction_files(tree) ==
    LET st == tree.settings[1]
        Instruction(c, ref) == Check(c, FileExists(tree, ref))
    IN  Fold(Instruction, Check(NoChecks, FileExists(tree, MainPath)),
             st.instructions)

fixed_check_role_files(tree) ==
    LET Role(c, role_file) == Check(c, FileExists(tree, <<"roles", role_file>>))
    IN  Fold(Role, Check(NoChecks, DirExists(tree, "roles")), fixed_expected_roles)

\* a content check: skipped when the file is missing, raises when it cannot
\* be read
ContentCheck(tree, c, p, needles) ==
    IF c.raised \/ ~FileExists(tree, p) THEN c
    ELSE IF ~tree.files[p].readable THEN [c EXCEPT !.raised = TRUE]
    ELSE Check(c, \A alternatives \in needles :
                      \E needle \in alternatives : InText(needle, tree.files[p]))

fixed_check_task_files(tree) ==
    LET Task(c, task_file) == Check(c, FileExists(tree, <<"tasks", task_file>>))
    IN  ContentCheck(tree, Fold(Task, NoChecks, fixed_expected_tasks),
                     <<"tasks", "context-management.md">>,
                     { {"Example VS Code tabs:"}, {"Context Validation Checklist"} })

fixed_check_prompt_files(tree) ==
    LET Prompt(c, prompt_file) ==
            LET p == <<"prompts", prompt_file>>
                c1 == Check(c, FileExists(tree, p))
            IN  IF c.raised THEN c
                ELSE IF prompt_file = "generate-eda-notebook.prompt.md"
                THEN ContentCheck(tree, c1, p,
                                  { {"python_fence"}, {"Context Management"},
                                    {"Step-by-step", "## Steps"} })
                ELSE c1
    IN  Fold(Prompt, NoChecks, fixed_expected_prompts)

fixed_check_content_improvements(tree) ==
    ContentCheck(tree,
        ContentCheck(tree, NoChecks, <<"roles", "data-scientist.md">>,
                     { {"Standard Workflows"}, {"python_fence"},
                       {"Context Integration"} }),
        <<"tasks", "code-generation.md">>,
        { {"Specific Code Patterns"}, {"Anti-Patterns"}, {"Context Management"} })

\* main: the exit code, and what was evaluated
fixed_main(tree) ==
    LET groups == << fixed_check_copilot_config(tree),
                     fixed_check_instruction_files(tree),
                     fixed_check_role_files(tree),
                     fixed_check_task_files(tree),
                     fixed_check_prompt_files(tree),
                     fixed_check_content_improvements(tree) >>
        passed == Fold(LAMBDA a, c : a + c.passed, 0, groups)
        failed == Fold(LAMBDA a, c : a + c.failed, 0, groups)
    IN  IF fixed_load_vscode_settings_raises(tree)
        THEN Outcome(tree, 1, <<[loaded |-> FALSE, groups |-> 0, passed |-> 0,
                                 failed |-> 0]>>, FALSE)
        ELSE IF \E i \in DOMAIN groups : groups[i].raised
        THEN Outcome(tree, 1, <<>>, TRUE)
        ELSE Outcome(tree, IF failed = 0 THEN 0 ELSE 1,
                     <<[loaded |-> TRUE, groups |-> Len(groups),
                        passed |-> passed, failed |-> failed]>>, FALSE)

(***************************************************************************)
(* copilot_best_practices_validator.py : main.  Of validate_all only the   *)
(* reads that can raise are modelled here; the Markdown report is kept by  *)
(* its fixed text.                                                         *)
(***************************************************************************)
BpReportMd(stamp) ==
    CASE stamp = 0 -> "copilot_best_practices_report_0.md"
      [] stamp = 1 -> "copilot_best_practices_report_1.md"
      [] stamp = 2 -> "copilot_best_practices_report_2.md"
      [] stamp = 3 -> "copilot_best_practices_report_3.md"
      [] OTHER -> "copilot_best_practices_report_4.md"

BpReportJson(stamp) ==
    CASE stamp = 0 -> "copilot_best_practices_report_0.json"
      [] stamp = 1 -> "copilot_best_practices_report_1.json"
      [] stamp = 2 -> "copilot_best_practices_report_2.json"
      [] stamp = 3 -> "copilot_best_practices_report_3.json"
      [] OTHER -> "copilot_best_practices_report_4.json"

best_practices_validate_all_raises(tree) ==
    \/ FileExists(tree, MainPath) /\ ~tree.files[MainPath].readable
    \/ AnyUnreadable(tree, { p \in DOMAIN tree.files :
                               p[1] \in {"roles", "tasks", "prompts"} })

best_practices_generate_report == Doc("none", {}, {"bp_report"})

best_practices_main(tree, stamp) ==
    LET md == <<"instructions", BpReportMd(stamp)>>
        written ==
            [tree EXCEPT
                !.files = [p \in DOMAIN @ \cup {md} |->
                              IF p = md THEN best_practices_generate_report
                              ELSE @[p]],
                !.reports = [n \in DOMAIN @ \cup {BpReportJson(stamp)} |->
                                IF n = BpReportJson(stamp)
                                THEN [status_key |-> "none"] ELSE @[n]]]
    IN  IF best_practices_validate_all_raises(tree) THEN Outcome(tree, 1, <<>>, TRUE)
        ELSE Outcome(written, 0, <<>>, FALSE)

(***************************************************************************)
(* Python floats.  total_score is a double: every product and every sum    *)
(* is rounded to 53 significant bits, ties to even.  A double is kept as   *)
(* the natural number of units of 2^-70 it holds, written in limbs of ten  *)
(* bits, lowest first; the values met here lie between 2^-17 and 2^11, so  *)
(* each is a whole number of units below 2^90.                             *)
(***************************************************************************)
LimbBase == 1024
LimbCount == 9
MantissaBits == 53
UnitBits == 70

BigZero == [i \in 1..LimbCount |-> 0]

\* the number whose limbs, before the carries, are cs
BigNorm(cs) ==
    LET Step(st, c) ==
            [carry |-> (c + st.carry) \div LimbBase,
             out |-> Append(st.out, (c + st.carry) % LimbBase)]
    IN  The({ Fold(Step, [carry |-> 0, out |-> <<>>], limbs).out : limbs \in {cs} })

BigOfSmall(n) == BigNorm([i \in 1..LimbCount |-> IF i = 1 THEN n ELSE 0])

BigAdd(a, b) == BigNorm([i \in 1..LimbCount |-> a[i] + b[i]])

BigMulSmall(a, c) == BigNorm([i \in 1..LimbCount |-> a[i] * c])

\* quotient and remainder of the division by a small number
BigDivSmall(a, d) ==
    LET Step(st, limb) ==
            [r |-> (st.r * LimbBase + limb) % d,
             q |-> <<(st.r * LimbBase + limb) \div d>> \o st.q]
    IN  The({ Fold(Step, [r |-> 0, q |-> <<>>], high) :
                high \in { [j \in 1..LimbCount |-> a[LimbCount + 1 - j]] } })

\* the number of bits of a number
BigBitLen(a) ==
    LET nz == { i \in 1..LimbCount : a[i] # 0 }
        h == CHOOSE i \in nz : \A j \in nz : j <= i
    IN  IF nz = {} THEN 0
        ELSE 10 * (h - 1) + CHOOSE l \in 1..10 : 2^(l - 1) <= a[h] /\ a[h] < 2^l

\* a \div 2^s, and whether a bit was lost
BigShr(a, s) ==
    LET k == s \div 10
        dv == BigDivSmall([i \in 1..LimbCount |->
                              IF i + k <= LimbCount THEN a[i + k] ELSE 0],
                          2^(s % 10))
    IN  [q |-> dv.q, sticky |-> dv.r # 0 \/ \E i \in 1..k : a[i] # 0]

\* a * 2^s
BigShl(a, s) ==
    LET k == s \div 10
        m == BigMulSmall(a, 2^(s % 10))
    IN  [i \in 1..LimbCount |-> IF i > k THEN m[i - k] ELSE 0]

\* the double nearest to n / d, ties to even
RoundDiv(n, d) ==
    LET s == BigBitLen(BigDivSmall(n, d).q) - MantissaBits
        sh == BigShr(n, s - 1)
        dv == BigDivSmall(sh.q, 2 * d)
        up == dv.r > d \/ (dv.r = d /\ (sh.sticky \/ dv.q[1] % 2 = 1))
    IN  IF s <= 0 THEN BigDivSmall(n, d).q
        ELSE BigShl(IF up THEN BigAdd(dv.q, BigOfSmall(1)) ELSE dv.q, s)

\* the float that json.load gives for a rate written with one decimal
DoubleOfTenths(k) == RoundDiv(BigShl(BigOfSmall(k), UnitBits), 10)

\* x * n, x + y and x / n for doubles x, y and an integer n
DoubleTimesInt(x, n) == RoundDiv(BigMulSmall(x, n), 1)
DoublePlus(x, y) == RoundDiv(BigAdd(x, y), 1)
DoubleOverInt(x, n) == RoundDiv(x, n)

\* round(x, 1) in tenths: the exact value of the double, ties to even
DoubleRoundTenths(x) ==
    LET sh == BigShr(BigMulSmall(x, 10), UnitBits - 1)
        twice == sh.q[1] + LimbBase * sh.q[2]
    IN  IF twice % 2 = 1 /\ (sh.sticky \/ (twice \div 2) % 2 = 1)
        THEN twice \div 2 + 1 ELSE twice \div 2

(***************************************************************************)
(* master_validator.py : MasterOrchestrationValidator                      *)
(***************************************************************************)
master_validators ==
    << [name |-> "Estructura Basica", script |-> "comprehensive_validator.py",
        weight |-> 3],
       [name |-> "Orquestacion Completa", script |-> "orchestration_validator.py",
        weight |-> 4],
       [name |-> "Workflows de Trabajo", script |-> "workflow_validator.py",
        weight |-> 3],
       [name |-> "Validacion Practica", script |-> "practical_validator.py",
        weight |-> 4] >>

report_files(script) ==
    CASE script = "comprehensive_validator.py" -> "validation_report.json"
      [] script = "orchestration_validator.py" -> "orchestration_report.json"
      [] script = "workflow_validator.py" -> "workflow_validation_report.json"
      [] script = "practical_validator.py" -> "practical_validation_report.json"
      [] OTHER -> "unknown_report.json"

status_keys ==
    { "status", "orchestration_status", "workflow_status", "practical_status" }

\* subprocess.run([sys.executable, script_path], cwd=project_root)
RunScript(tree, script) ==
    CASE script = "comprehensive_validator.py" -> comprehensive_main(tree)
      [] script = "orchestration_validator.py" -> orchestration_main(tree)
      [] script = "workflow_validator.py" -> workflow_main(tree)
      [] script = "practical_validator.py" -> practical_main(tree)

Result(status, success_rate, score, return_code, details) ==
    [status |-> status, success_rate |-> success_rate, score |-> score,
     return_code |-> return_code, details |-> details]

\* variant of _run_single_validator without the test that the script exists
master_run_single_validator_unchecked(tree, validator, timed_out) ==
    LET name == report_files(validator.script)
        Started == [script |-> validator.script, invoked |-> TRUE,
                    ran |-> FALSE, returncode |-> -1, aborted |-> FALSE,
                    report |-> <<>>]
        Finished(run) ==
            LET report_data == run.fs.reports[name]
                status == IF report_data.status_key \in status_keys
                          THEN report_data.status ELSE "UNKNOWN"
                success_rate == IF "success_rate" \in DOMAIN report_data
                                THEN report_data.success_rate ELSE 0
                DidRun == [script |-> validator.script, invoked |-> TRUE,
                           ran |-> TRUE, returncode |-> run.returncode,
                           aborted |-> run.aborted, report |-> run.report]
            IN  IF name \in DOMAIN run.fs.reports
                THEN [fs |-> run.fs, run |-> DidRun,
                      result |-> Result(status, success_rate, success_rate,
                                        run.returncode, <<report_data>>)]
                ELSE [fs |-> run.fs, run |-> DidRun,
                      result |-> IF run.returncode = 0
                                 THEN Result("COMPLETED", 1000, 1000, 0, <<>>)
                                 ELSE Result("FAIL", 0, 0, run.returncode, <<>>)]
    IN  IF ~FileExists(tree, <<"instructions", validator.script>>)
        THEN [fs |-> tree, run |-> Started,
              result |-> Result("FAIL", 0, 0, 2, <<>>)]
        ELSE IF timed_out
        THEN [fs |-> tree, run |-> Started,
              result |-> Result("TIMEOUT", 0, 0, -1, <<>>)]
        ELSE The({ Finished(run) : run \in { RunScript(tree, validator.script) } })

\* _run_single_validator: the tree it leaves and the result dictionary;
\* timed_out says whether the subprocess exceeds the 60 seconds
master_run_single_validator(tree, validator, timed_out) ==
    LET name == report_files(validator.script)
        \* run: what the subprocess did, kept beside the result dictionary;
        \* invoked says whether subprocess.run was called, ran whether the
        \* script ran to its end
        NotRun(invoked) ==
            [script |-> validator.script, invoked |-> invoked, ran |-> FALSE,
             returncode |-> -1, aborted |-> FALSE, report |-> <<>>]
        Finished(run) ==
            LET report_data == run.fs.reports[name]
                status == IF report_data.status_key \in status_keys
                          THEN report_data.status ELSE "UNKNOWN"
                success_rate == IF "success_rate" \in DOMAIN report_data
                                THEN report_data.success_rate ELSE 0
                DidRun == [script |-> validator.script, invoked |-> TRUE,
                           ran |-> TRUE, returncode |-> run.returncode,
                           aborted |-> run.aborted, report |-> run.report]
            IN  IF name \in DOMAIN run.fs.reports
                THEN [fs |-> run.fs, run |-> DidRun,
                      result |-> Result(status, success_rate, success_rate,
                                        run.returncode, <<report_data>>)]
                ELSE [fs |-> run.fs, run |-> DidRun,
                      result |-> IF run.returncode = 0
                                 THEN Result("COMPLETED", 1000, 1000, 0, <<>>)
                                 ELSE Result("FAIL", 0, 0, run.returncode, <<>>)]
    IN  IF ~FileExists(tree, <<"instructions", validator.script>>)
        THEN [fs |-> tree, run |-> NotRun(FALSE),
              result |-> Result("ERROR", 0, 0, -1, <<>>)]
        ELSE IF timed_out
        THEN [fs |-> tree, run |-> NotRun(TRUE),
              result |-> Result("TIMEOUT", 0, 0, -1, <<>>)]
        ELSE The({ Finished(run) : run \in { RunScript(tree, validator.script) } })

\* variant of the loop body in which every status but PASS fails the run
master_update_scores_strict(acc, validator, result) ==
    [acc EXCEPT
        !.validator_results = Append(@, [name |-> validator.name, result |-> result]),
        !.max_score = @ + validator.weight * 100,
        !.total_score = DoublePlus(@, DoubleTimesInt(DoubleOfTenths(result.score),
                                                     validator.weight)),
        !.overall_status = IF result.status # "PASS" THEN "FAIL" ELSE @]

\* variant of the loop body that leaves a group that did not report out of
\* max_score
master_update_scores_reported_only(acc, validator, result) ==
    [acc EXCEPT
        !.validator_results = Append(@, [name |-> validator.name, result |-> result]),
        !.max_score = IF result.status \in {"ERROR", "TIMEOUT"}
                      THEN @ ELSE @ + validator.weight * 100,
        !.total_score = DoublePlus(@, DoubleTimesInt(DoubleOfTenths(result.score),
                                                     validator.weight)),
        !.overall_status = IF result.status = "FAIL" THEN "FAIL" ELSE @]

\* variant of the loop body that adds the score without its weight
master_update_scores_unweighted(acc, validator, result) ==
    [acc EXCEPT
        !.validator_results = Append(@, [name |-> validator.name, result |-> result]),
        !.max_score = @ + validator.weight * 100,
        !.total_score = DoublePlus(@, DoubleOfTenths(result.score)),
        !.overall_status = IF result.status = "FAIL" THEN "FAIL" ELSE @]

\* the body of the loop of run_complete_validation after the script has run
master_update_scores(acc, validator, result) ==
    [acc EXCEPT
        !.validator_results = Append(@, [name |-> validator.name, result |-> result]),
        !.max_score = @ + validator.weight * 100,
        !.total_score = DoublePlus(@, DoubleTimesInt(DoubleOfTenths(result.score),
                                                     validator.weight)),
        !.overall_status = IF result.status = "FAIL" THEN "FAIL" ELSE @]

\* round(total_score / max_score * 100, 1), in tenths
master_overall_percentage(acc) ==
    IF acc.max_score > 0
    THEN DoubleRoundTenths(DoubleTimesInt(
             DoubleOverInt(acc.total_score, acc.max_score), 100))
    ELSE 0

master_calculate_grade(percentage) ==
    IF percentage >= 950 THEN "A+"
    ELSE IF percentage >= 900 THEN "A"
    ELSE IF percentage >= 850 THEN "B+"
    ELSE IF percentage >= 800 THEN "B"
    ELSE IF percentage >= 700 THEN "C+"
    ELSE IF percentage >= 600 THEN "C"
    ELSE "D"

\* variant of _generate_summary that counts every group that did not pass
\* as a critical issue
master_generate_summary_not_passed(validators, results) ==
    [project_status |-> results.overall_status,
     overall_score |-> results.overall_percentage,
     validators_executed |-> Len(validators),
     validators_passed |->
        Cardinality({ i \in DOMAIN results.validator_results :
                        results.validator_results[i].result.status = "PASS" }),
     critical_issues |->
        Cardinality({ i \in DOMAIN results.validator_results :
                        results.validator_results[i].result.status # "PASS" }),
     performance_grade |-> master_calculate_grade(results.overall_percentage)]

master_generate_summary(validators, results) ==
    [project_status |-> results.overall_status,
     overall_score |-> results.overall_percentage,
     validators_executed |-> Len(validators),
     validators_passed |->
        Cardinality({ i \in DOMAIN results.validator_results :
                        results.validator_results[i].result.status = "PASS" }),
     critical_issues |->
        Cardinality({ i \in DOMAIN results.validator_results :
                        results.validator_results[i].result.status = "FAIL" }),
     performance_grade |-> master_calculate_grade(results.overall_percentage)]

master_generate_recommendations(results) ==
    LET general ==
            IF results.overall_percentage >= 950 THEN <<"world_class", "document">>
            ELSE IF results.overall_percentage >= 850 THEN <<"very_good", "review_warnings">>
            ELSE IF results.overall_percentage >= 700 THEN <<"solid", "fix_critical">>
            ELSE <<"needs_improvement", "read_docs">>
        low == SelectSeq(results.validator_results,
                         LAMBDA r : r.result.success_rate < 800)
    IN  general \o [i \in DOMAIN low |-> low[i].name]

NewResults ==
    [overall_status |-> "PASS", total_score |-> BigZero, max_score |-> 0,
     validator_results |-> <<>>, overall_percentage |-> 0,
     summary |-> <<>>, recommendations |-> <<>>]

\* what follows the loop: percentage, recommendations, summary
master_finish(validators, acc) ==
    LET r1 == [acc EXCEPT !.overall_percentage = master_overall_percentage(acc)]
        r2 == [r1 EXCEPT !.recommendations = master_generate_recommendations(r1)]
    IN  [r2 EXCEPT !.summary = <<master_generate_summary(validators, r2)>>]

MasterReportJson(stamp) ==
    CASE stamp = 0 -> "master_validation_report_0.json"
      [] stamp = 1 -> "master_validation_report_1.json"
      [] stamp = 2 -> "master_validation_report_2.json"
      [] stamp = 3 -> "master_validation_report_3.json"
      [] OTHER -> "master_validation_report_4.json"

master_save_consolidated_report(tree, stamp, results) ==
    LET data == [status_key |-> "overall_status",
                 status |-> results.overall_status,
                 overall_percentage |-> results.overall_percentage]
    IN  WriteReport(WriteReport(tree, MasterReportJson(stamp), data),
                    "latest_master_validation_report.json", data)

\* run_complete_validation; timeouts is the set of scripts that time out
master_run_complete_validation(tree, stamp, timeouts) ==
    LET Step(st, validator) ==
            The({ [fs |-> one.fs,
                   acc |-> master_update_scores(st.acc, validator, one.result),
                   trace |-> Append(st.trace, one.run)] :
                    one \in { master_run_single_validator(
                                 st.fs, validator, validator.script \in timeouts) } })
        Finish(loop) ==
            The({ IF ~DirExists(loop.fs, "instructions")
                  THEN [fs |-> loop.fs, results |-> results, saved |-> FALSE,
                        trace |-> loop.trace]
                  ELSE [fs |-> master_save_consolidated_report(loop.fs, stamp, results),
                        results |-> results, saved |-> TRUE, trace |-> loop.trace] :
                    results \in { master_finish(master_validators, loop.acc) } })
    IN  The({ Finish(loop) :
                loop \in { Fold(Step, [fs |-> tree, acc |-> NewResults,
                                       trace |-> <<>>], master_validators) } })

master_main(tree, stamp, timeouts) ==
    LET Exit(run) ==
            [fs |-> run.fs,
             returncode |-> IF run.saved /\ run.results.overall_status = "PASS"
                            THEN 0 ELSE 1,
             report |-> <<run.results>>, aborted |-> ~run.saved,
             trace |-> run.trace]
    IN  The({ Exit(run) :
                run \in { master_run_complete_validation(tree, stamp, timeouts) } })

(***************************************************************************)
(* The tree the exploration starts from: a complete project in which every *)
(* validator passes.                                                       *)
(***************************************************************************)
RoleFields == { "applyTo", "description", "priority" }
PromptFields == { "title", "description", "mode", "tools", "role" }

RoleDoc(extra) == Doc("map", RoleFields, {"role sections", "code example"} \cup extra)
TaskDoc(extra) ==
    Doc("map", RoleFields, {"steps", "code example", "dos and donts"} \cup extra)
PromptDoc == Doc("map", PromptFields,
                 {"role_ds", "steps", "code example", "use context7"})
ScriptDoc == Doc("none", {}, {})

TaskNames ==
    { "code-generation.md", "test-generation.md", "code-review.md",
      "notebook-eda.md", "data-validation.md", "context-management.md",
      "architecture-design.md", "etl-pipeline-development.md",
      "ui-development.md" }

BaseFiles ==
    LET paths == {MainPath}
                 \cup { <<"roles", expected_roles[i]>> : i \in DOMAIN expected_roles }
                 \cup { <<"tasks", t>> : t \in TaskNames }
                 \cup { <<"prompts", PromptNames[i]>> : i \in DOMAIN PromptNames }
                 \cup { <<"instructions", sc>> : sc \in ScriptNames }
    IN  [p \in paths |->
            CASE p = MainPath ->
                    Doc("none", {}, {"sections", "orch_sections", "hierarchy_refs",
                                     "role_list", "use context7"})
              [] p = <<"roles", "data-scientist.md">> -> RoleDoc({"pandas notebook"})
              [] p = <<"roles", "qa-engineer.md">> ->
                    RoleDoc({"pytest fixtures", "use context7"})
              [] p = <<"roles", "data-engineer.md">> -> RoleDoc({"pipeline monitoring"})
              [] p = <<"roles", "frontend-developer.md">> -> RoleDoc({"error handling"})
              [] p[1] = "roles" -> RoleDoc({})
              [] p = <<"tasks", "ui-development.md">> -> TaskDoc({"pytest fixtures"})
              [] p[1] = "tasks" -> TaskDoc({})
              [] p[1] = "prompts" -> PromptDoc
              [] OTHER -> ScriptDoc]

BaseSettings ==
    [readable |-> TRUE, parse |-> "ok", useInstructionFiles |-> "true",
     promptFiles |-> "true", instructions |-> <<MainPath>>,
     promptFilesLocations |-> {"instructions", "prompts", "roles", "tasks"},
     copilotEnable |-> "secure"]

BaseTree ==
    [dirs |-> Dirs, files |-> BaseFiles, settings |-> <<BaseSettings>>,
     reports |-> <<>>]

(***************************************************************************)
(* Outside modifications of the tree.                                      *)
(***************************************************************************)
Restrict(f, S) == [x \in S |-> f[x]]

RemoveFile(tree, p) ==
    [tree EXCEPT !.files = Restrict(@, DOMAIN @ \ {p})]

WriteFile(tree, p, content) ==
    [tree EXCEPT !.files = [q \in DOMAIN @ \cup {p} |->
                               IF q = p THEN content ELSE @[q]]]

Rmdir(tree, d) ==
    [dirs |-> tree.dirs \ Below(d),
     files |-> Restrict(tree.files,
                        { p \in DOMAIN tree.files : p[1] \notin Below(d) }),
     settings |-> IF d = "vscode" THEN <<>> ELSE tree.settings,
     reports |-> IF "instructions" \in Below(d) THEN <<>> ELSE tree.reports]

Mkdir(tree, d) == [tree EXCEPT !.dirs = @ \cup {d}]

\* the files and contents the outside edits range over
EditRemovals ==
    { MainPath, <<"roles", "data-scientist.md">>,
      <<"instructions", "comprehensive_validator.py">> }
EditTargets ==
    { <<"roles", "data-scientist.md">>,
      <<"prompts", "generate-eda-notebook.prompt.md">> }
EditContents == { Unreadable, Doc("null", {}, {}), Doc("none", {}, {}) }
EditRmdirs == { "roles", "instructions" }
EditSettings ==
    { [BaseSettings EXCEPT !.parse = "error"],
      [BaseSettings EXCEPT !.useInstructionFiles = "false"] }

Edited(tree) ==
    /\ edits < MaxEdits
    /\ fs' = tree
    /\ tree # fs
    /\ edits' = edits + 1
    /\ UNCHANGED <<last, obj, runs>>

EnvRemoveFile ==
    \E p \in EditRemovals : FileExists(fs, p) /\ Edited(RemoveFile(fs, p))

EnvWriteFile ==
    \E p \in EditTargets, content \in EditContents :
        DirExists(fs, p[1]) /\ Edited(WriteFile(fs, p, content))

\* a new, empty copilot-instructions.md
EnvCreateMain ==
    /\ DirExists(fs, "github") /\ ~FileExists(fs, MainPath)
    /\ Edited(WriteFile(fs, MainPath, Doc("none", {}, {})))

EnvRmdir == \E d \in EditRmdirs : DirExists(fs, d) /\ Edited(Rmdir(fs, d))

EnvMkdir ==
    \E d \in Dirs :
        /\ ~DirExists(fs, d)
        /\ Parent(d) = "root" \/ DirExists(fs, Parent(d))
        /\ Edited(Mkdir(fs, d))

EnvRemoveSettings ==
    /\ fs.settings # <<>>
    /\ Edited([fs EXCEPT !.settings = <<>>])

EnvWriteSettings ==
    \E st \in EditSettings :
        DirExists(fs, "vscode") /\ Edited([fs EXCEPT !.settings = <<st>>])

(***************************************************************************)
(* Running the scripts.                                                    *)
(***************************************************************************)
Ran(script, out) ==
    /\ runs < MaxRuns
    /\ runs' = runs + 1
    /\ fs' = out.fs
    /\ last' = [script |-> script, returncode |-> out.returncode,
                report |-> out.report, aborted |-> out.aborted,
                trace |-> out.trace]
    /\ UNCHANGED <<obj, edits>>

Installed(script) == FileExists(fs, <<"instructions", script>>)

RunComprehensive ==
    /\ Installed("comprehensive_validator.py")
    /\ Ran("comprehensive_validator.py", comprehensive_main(fs))

RunOrchestration ==
    /\ Installed("orchestration_validator.py")
    /\ Ran("orchestration_validator.py", orchestration_main(fs))

RunWorkflow ==
    /\ Installed("workflow_validator.py")
    /\ Ran("workflow_validator.py", workflow_main(fs))

RunPractical ==
    /\ Installed("practical_validator.py")
    /\ Ran("practical_validator.py", practical_main(fs))

RunBestPractices ==
    /\ Installed("copilot_best_practices_validator.py")
    /\ Ran("copilot_best_practices_validator.py", best_practices_main(fs, runs))

RunFixed ==
    /\ Installed("validate_instructions_fixed.py")
    /\ Ran("validate_instructions_fixed.py", fixed_main(fs))

\* the sets of scripts that exceed the timeout in one aggregate run: none,
\* the first script, or all of them
TimeoutChoices ==
    { {}, {master_validators[1].script},
      { master_validators[i].script : i \in DOMAIN master_validators } }

RunMaster ==
    /\ Installed("master_validator.py")
    /\ \E timeouts \in TimeoutChoices :
        Ran("master_validator.py", master_main(fs, runs, timeouts))

NoRun ==
    [script |-> "none", returncode |-> 0, report |-> <<>>, aborted |-> FALSE,
     trace |-> <<>>]

\* the trees a run of the exploration may start from
StartTrees ==
    { BaseTree, Rmdir(BaseTree, "roles"), RemoveFile(BaseTree, MainPath) }

Init ==
    /\ fs \in StartTrees
    /\ last = NoRun
    /\ obj = [class |-> "none", v |-> NewValidator]
    /\ edits = 0
    /\ runs = 0

Next ==
    \/ EnvRemoveFile
    \/ EnvWriteFile
    \/ EnvCreateMain
    \/ EnvRmdir
    \/ EnvMkdir
    \/ EnvRemoveSettings
    \/ EnvWriteSettings
    \/ RunComprehensive
    \/ RunOrchestration
    \/ RunWorkflow
    \/ RunPractical
    \/ RunBestPractices

Spec == Init /\ [][Next]_vars

(***************************************************************************)
(* Aggregate runs: SpecMaster interleaves the outside modifications with   *)
(* runs of master_validator.py, which runs the four scripts itself.        *)
(***************************************************************************)
NextMaster ==
    \/ EnvRemoveFile
    \/ EnvWriteFile
    \/ EnvCreateMain
    \/ EnvRmdir
    \/ EnvMkdir
    \/ EnvRemoveSettings
    \/ EnvWriteSettings
    \/ RunMaster

SpecMaster == Init /\ [][NextMaster]_vars

(***************************************************************************)
(* Reading settings.json as text.  A text is a sequence of characters.     *)
(* Each validator removes comments in its own way and hands the result to  *)
(* json.loads.                                                             *)
(***************************************************************************)
Whitespace == { " ", "\n" }

\* content.split("\n")
SplitLines(text) ==
    LET Step(lines, ch) ==
            IF ch = "\n" THEN Append(lines, <<>>)
            ELSE [lines EXCEPT ![Len(lines)] = Append(@, ch)]
    IN  Fold(Step, << <<>> >>, text)

\* "\n".join(lines)
JoinLines(lines) ==
    LET Step(text, i) ==
            IF i = 1 THEN lines[i] ELSE text \o <<"\n">> \o lines[i]
    IN  Fold(Step, <<>>, [i \in DOMAIN lines |-> i])

\* line.find("//") + 1; 0 when "//" does not occur
FindSlashes(line) ==
    LET hits == { i \in 1..(Len(line) - 1) : line[i] = "/" /\ line[i + 1] = "/" }
    IN  IF hits = {} THEN 0 ELSE CHOOSE i \in hits : \A j \in hits : i <= j

\* line[:pos - 1], or the line when pos = 0
CutBefore(line, pos) == IF pos = 0 THEN line ELSE SubSeq(line, 1, pos - 1)

\* line.strip().startswith('"')
StartsWithQuote(line) ==
    \E i \in DOMAIN line :
        /\ line[i] = "\""
        /\ \A j \in 1..(i - 1) : line[j] \in Whitespace

\* line.rstrip()
RStrip(line) ==
    LET keep == { i \in DOMAIN line : line[i] \notin Whitespace }
    IN  SubSeq(line, 1, IF keep = {} THEN 0
                        ELSE CHOOSE i \in keep : \A j \in keep : j <= i)

\* re.sub(r"//.*$", "", content, flags=re.MULTILINE)
comprehensive_clean(text) ==
    LET lines == SplitLines(text)
    IN  JoinLines([i \in DOMAIN lines |-> CutBefore(lines[i], FindSlashes(lines[i]))])

\* the loop over content.split("\n") of the orchestration validator and of
\* load_vscode_settings
orchestration_clean(text) ==
    LET lines == SplitLines(text)
        Clean(line) ==
            IF FindSlashes(line) # 0 /\ ~StartsWithQuote(line)
            THEN CutBefore(line, FindSlashes(line))
            ELSE line
    IN  JoinLines([i \in DOMAIN lines |-> Clean(lines[i])])

\* the position of the first // of a line that is outside a string, as the
\* character loop of the best-practices validator finds it; 0 if none
CommentPos(line) ==
    LET Step(st, i) ==
            IF st.pos # 0 THEN st
            ELSE IF st.escaped THEN [st EXCEPT !.escaped = FALSE]
            ELSE IF line[i] = "\\" THEN [st EXCEPT !.escaped = TRUE]
            ELSE IF line[i] = "\"" THEN [st EXCEPT !.in_string = ~@]
            ELSE IF /\ line[i] = "/" /\ i + 1 <= Len(line)
                    /\ line[i + 1] = "/" /\ ~st.in_string
            THEN [st EXCEPT !.pos = i]
            ELSE st
    IN  Fold(Step, [in_string |-> FALSE, escaped |-> FALSE, pos |-> 0],
             [i \in DOMAIN line |-> i]).pos

\* re.sub(r'/\*.*?\*/', '', content, flags=re.DOTALL)
RemoveBlockComments(text) ==
    LET Closers(i) ==
            { j \in (i + 2)..(Len(text) - 1) : text[j] = "*" /\ text[j + 1] = "/" }
        Step(st, i) ==
            IF i <= st.skip THEN st
            ELSE IF /\ i < Len(text) /\ text[i] = "/" /\ text[i + 1] = "*"
                    /\ Closers(i) # {}
            THEN [st EXCEPT !.skip =
                     1 + CHOOSE j \in Closers(i) : \A k \in Closers(i) : j <= k]
            ELSE [st EXCEPT !.out = Append(@, text[i])]
    IN  Fold(Step, [out |-> <<>>, skip |-> 0], [i \in DOMAIN text |-> i]).out

\* re.sub(r',(\s*[}\]])', r'\1', content)
RemoveTrailingCommas(text) ==
    LET Trailing(i) ==
            \E j \in (i + 1)..Len(text) :
                /\ text[j] \in { "}", "]" }
                /\ \A k \in (i + 1)..(j - 1) : text[k] \in Whitespace
    IN  SelectSeq([i \in DOMAIN text |->
                      IF text[i] = "," /\ Trailing(i) THEN "" ELSE text[i]],
                  LAMBDA ch : ch # "")

\* lines without their // comment and their trailing blanks, empty lines
\* dropped; then the block comments and the trailing commas removed
best_practices_clean(text) ==
    LET lines == SplitLines(text)
        Clean(line) ==
            IF FindSlashes(line) # 0 /\ CommentPos(line) # 0
            THEN RStrip(CutBefore(line, CommentPos(line)))
            ELSE line
        cleaned == [i \in DOMAIN lines |-> Clean(lines[i])]
        kept == SelectSeq(cleaned, LAMBDA line : RStrip(line) # <<>>)
    IN  RemoveTrailingCommas(RemoveBlockComments(JoinLines(kept)))

(***************************************************************************)
(* json.loads, for documents made of objects, strings and true.  The text  *)
(* is cut into tokens; a character that starts no JSON token gives "bad".  *)
(***************************************************************************)
Letters == { "t", "r", "u", "e", "c" }

JsonTokens(text) ==
    LET Flush(st) ==
            IF st.word = <<>> THEN st
            ELSE [st EXCEPT !.word = <<>>,
                            !.toks = Append(@, IF st.word = <<"t", "r", "u", "e">>
                                               THEN "true" ELSE "bad")]
        Step(st, ch) ==
            IF st.in_string
            THEN IF ch = "\"" THEN [st EXCEPT !.in_string = FALSE,
                                             !.toks = Append(@, "str")]
                 ELSE IF ch = "\n" THEN [st EXCEPT !.toks = Append(@, "bad")]
                 ELSE st
            ELSE IF ch \in Letters THEN [st EXCEPT !.word = Append(@, ch)]
            ELSE LET s1 == Flush(st)
                 IN  IF ch = "\"" THEN [s1 EXCEPT !.in_string = TRUE]
                     ELSE IF ch \in Whitespace THEN s1
                     ELSE IF ch \in { "{", "}", ",", ":" }
                     THEN [s1 EXCEPT !.toks = Append(@, ch)]
                     ELSE [s1 EXCEPT !.toks = Append(@, "bad")]
        end == Flush(Fold(Step, [in_string |-> FALSE, word |-> <<>>, toks |-> <<>>],
                          text))
    IN  IF end.in_string THEN Append(end.toks, "bad") ELSE end.toks

\* the position after the value that starts at position i, 0 if there is
\* no value there
RECURSIVE JsonValue(_, _)
RECURSIVE JsonMembers(_, _)
JsonValue(toks, i) ==
    IF i > Len(toks) THEN 0
    ELSE IF toks[i] \in { "str", "true" } THEN i + 1
    ELSE IF toks[i] # "{" THEN 0
    ELSE IF i + 1 <= Len(toks) /\ toks[i + 1] = "}" THEN i + 2
    ELSE JsonMembers(toks, i + 1)

\* members from position i up to the closing brace
JsonMembers(toks, i) ==
    IF i + 1 > Len(toks) \/ toks[i] # "str" \/ toks[i + 1] # ":" THEN 0
    ELSE LET j == JsonValue(toks, i + 2)
         IN  IF j = 0 \/ j > Len(toks) THEN 0
             ELSE IF toks[j] = "}" THEN j + 1
             ELSE IF toks[j] = "," THEN JsonMembers(toks, j + 1)
             ELSE 0

\* json.loads(text) raises JSONDecodeError
json_loads_raises(text) ==
    LET toks == JsonTokens(text)
    IN  JsonValue(toks, 1) # Len(toks) + 1

(***************************************************************************)
(* The documents: an object of two members, written on one line or on      *)
(* several, with comments in up to MaxComments of three places and with or *)
(* without a comma after the last member.  Keys and values include strings *)
(* that hold //, the opening and the closing of a block comment.           *)
(***************************************************************************)
Quoted(chars) == <<"\"">> \o chars \o <<"\"">>

Keys1 == { Quoted(<<"a">>), Quoted(<<"/", "*">>) }
Keys2 == { Quoted(<<"b">>), Quoted(<<"*", "/">>) }
Values == { <<"t", "r", "u", "e">>, Quoted(<<"/", "/", "x">>), Quoted(<<"x">>) }
Comments == { <<>>, <<"/", "/", "c">>, <<"/", "*", "c", "*", "/">> }

\* a line comment ends with its line
Break(comment, sep) ==
    IF Len(comment) > 1 /\ comment[2] = "/" THEN <<"\n">> ELSE sep

Documents ==
    { <<"{">> \o c[1] \o Break(c[1], sep)
        \o k1 \o <<":">> \o v1 \o <<",">> \o c[2] \o Break(c[2], sep)
        \o k2 \o <<":">> \o v2 \o c[3] \o comma \o Break(c[3], sep) \o <<"}">> :
        k1 \in Keys1, k2 \in Keys2, v1 \in Values, v2 \in Values,
        sep \in { <<" ">>, <<"\n">> }, comma \in { <<>>, <<",">> },
        c \in { cs \in [1..3 -> Comments] :
                  Cardinality({ i \in 1..3 : cs[i] # <<>> }) <= MaxComments } }

\* A JSON document with comments as a reader that knows strings, line
\* comments and block comments sees it: its string literals in order, the
\* number of its block comments, and its text outside the comments
Lex(text) ==
    LET Step(st, ch) ==
            CASE st.mode = "string" ->
                    IF ch = "\"" THEN [st EXCEPT !.mode = "code", !.cur = <<>>,
                                                !.lits = Append(@, st.cur),
                                                !.code = Append(@, ch)]
                    ELSE [st EXCEPT !.cur = Append(@, ch), !.code = Append(@, ch)]
              [] st.mode = "line" ->
                    IF ch = "\n" THEN [st EXCEPT !.mode = "code",
                                                 !.code = Append(@, ch)]
                    ELSE st
              [] st.mode = "block" ->
                    IF ch = "/" /\ st.prev = "*"
                    THEN [st EXCEPT !.mode = "code", !.prev = "",
                                    !.blocks = @ + 1]
                    ELSE [st EXCEPT !.prev = ch]
              [] OTHER ->
                    IF ch = "\"" THEN [st EXCEPT !.mode = "string", !.prev = "",
                                                !.code = Append(@, ch)]
                    ELSE IF ch = "/" /\ st.prev = "/"
                    THEN [st EXCEPT !.mode = "line", !.prev = "",
                                    !.code = SubSeq(@, 1, Len(@) - 1)]
                    ELSE IF ch = "*" /\ st.prev = "/"
                    THEN [st EXCEPT !.mode = "block", !.prev = "",
                                    !.code = SubSeq(@, 1, Len(@) - 1)]
                    ELSE [st EXCEPT !.prev = ch, !.code = Append(@, ch)]
        end == Fold(Step, [mode |-> "code", cur |-> <<>>, lits |-> <<>>,
                           prev |-> "", blocks |-> 0, code |-> <<>>], text)
    IN  IF end.mode = "string" THEN [end EXCEPT !.lits = Append(@, end.cur)]
        ELSE end

Literals(text) == Lex(text).lits

\* the outcome of reading the settings: the cleaned text and whether
\* json.loads accepted it
ReadSettings(script, clean) ==
    /\ last.script = "none"
    /\ last' = [script |-> script,
                returncode |-> IF json_loads_raises(clean) THEN 1 ELSE 0,
                report |-> <<clean>>, aborted |-> FALSE, trace |-> <<>>]
    /\ UNCHANGED <<fs, obj, edits, runs>>

ReadComprehensive ==
    ReadSettings("comprehensive_validator.py", comprehensive_clean(obj.v))

ReadPractical ==
    ReadSettings("practical_validator.py", comprehensive_clean(obj.v))

ReadOrchestration ==
    ReadSettings("orchestration_validator.py", orchestration_clean(obj.v))

ReadFixed ==
    ReadSettings("validate_instructions_fixed.py", orchestration_clean(obj.v))

ReadBestPractices ==
    ReadSettings("copilot_best_practices_validator.py", best_practices_clean(obj.v))

InitText ==
    /\ fs = BaseTree
    /\ last = NoRun
    /\ obj \in [class : {"text"}, v : Documents]
    /\ edits = 0
    /\ runs = 0

NextText ==
    \/ ReadComprehensive
    \/ ReadPractical
    \/ ReadOrchestration
    \/ ReadFixed
    \/ ReadBestPractices

SpecText == InitText /\ [][NextText]_vars

(***************************************************************************)
(* The check-list validators and the settings rules: SpecChecks starts     *)
(* from the complete project, with or without the improved contents that   *)
(* validate_instructions_fixed.py looks for, lets the outside change the   *)
(* tree and the values in settings.json, and runs the comprehensive, the   *)
(* orchestration and the fixed validator.                                  *)
(***************************************************************************)
ImprovedFiles ==
    { <<"roles", "data-scientist.md">>, <<"tasks", "code-generation.md">>,
      <<"tasks", "context-management.md">>,
      <<"prompts", "generate-eda-notebook.prompt.md">> }

ImprovedTree ==
    [BaseTree EXCEPT !.files =
        [p \in DOMAIN @ |->
            IF p \in ImprovedFiles
            THEN [@[p] EXCEPT !.text = @ \cup {"improved"}] ELSE @[p]]]

SettingValues == { "false", "string", "one", "absent" }

\* settings.json rewritten with another value for one of its keys
EnvSetSetting ==
    /\ fs.settings # <<>>
    /\ \/ \E val \in SettingValues :
            Edited([fs EXCEPT !.settings[1].useInstructionFiles = val])
       \/ \E val \in { "plain", "nondict" } :
            Edited([fs EXCEPT !.settings[1].copilotEnable = val])

InitChecks ==
    /\ fs \in { BaseTree, ImprovedTree }
    /\ last = NoRun
    /\ obj = [class |-> "none", v |-> NewValidator]
    /\ edits = 0
    /\ runs = 0

NextChecks ==
    \/ EnvRemoveFile
    \/ EnvWriteFile
    \/ EnvRmdir
    \/ EnvRemoveSettings
    \/ EnvWriteSettings
    \/ EnvSetSetting
    \/ RunComprehensive
    \/ RunOrchestration
    \/ RunFixed

SpecChecks == InitChecks /\ [][NextChecks]_vars

(***************************************************************************)
(* The report functions on their own: SpecTally draws the accumulators of  *)
(* a validator object (success_count, errors, warnings) from bounded sets  *)
(* and applies the class's report method to them.                          *)
(***************************************************************************)
TallyScripts ==
    { "comprehensive_validator.py", "workflow_validator.py",
      "practical_validator.py" }

FindingLists(text) ==
    { [i \in 1..n |-> text] : n \in 0..MaxFindings }

Accumulators ==
    { [errors |-> e, warnings |-> w, success_count |-> n, raised |-> FALSE] :
        e \in FindingLists("error"), w \in FindingLists("warning"),
        n \in 0..MaxFindings }

InitTally ==
    /\ fs = BaseTree
    /\ last = NoRun
    /\ obj \in { [class |-> c, v |-> v] : c \in TallyScripts, v \in Accumulators }
    /\ edits = 0
    /\ runs = 0

Reported(report) ==
    /\ last = NoRun
    /\ last' = [script |-> obj.class, returncode |-> 0, report |-> <<report>>,
                aborted |-> FALSE, trace |-> <<>>]
    /\ UNCHANGED <<fs, obj, edits, runs>>

ComprehensiveGenerateReport ==
    /\ obj.class = "comprehensive_validator.py"
    /\ Reported(comprehensive_generate_report(obj.v))

WorkflowGenerateReport ==
    /\ obj.class = "workflow_validator.py"
    /\ Reported(workflow_generate_workflow_report(fs, obj.v))

PracticalGenerateReport ==
    /\ obj.class = "practical_validator.py"
    /\ Reported(practical_generate_practical_report(fs, obj.v))

NextTally ==
    \/ ComprehensiveGenerateReport
    \/ WorkflowGenerateReport
    \/ PracticalGenerateReport

SpecTally == InitTally /\ [][NextTally]_vars

(***************************************************************************)
(* The aggregation on its own: SpecAgg draws the groups of an aggregate    *)
(* run (weight, and the result dictionary _run_single_validator returned)  *)
(* from bounded sets, steps the loop of run_complete_validation over them  *)
(* and finishes the report.                                                *)
(***************************************************************************)
AggWeights == { 0, 1, 3, 4 }
AggRates == { 0, 667, 1000 }

AggGroups ==
    { [validator |-> [name |-> "group", script |-> "group", weight |-> w],
       result |-> Result(IF r = 1000 THEN "PASS" ELSE "FAIL", r, r, 0, <<>>)] :
        w \in AggWeights, r \in AggRates }

AggRuns ==
    UNION { [1..n -> AggGroups] : n \in 0..MaxGroups }

InitAgg ==
    /\ fs = BaseTree
    /\ last = NoRun
    /\ obj \in { [class |-> "master_validator.py", groups |-> g,
                  acc |-> NewResults] : g \in AggRuns }
    /\ edits = 0
    /\ runs = 0

AggDone == Len(obj.acc.validator_results)

\* one turn of the loop, the script's result being given
AggRunGroup ==
    /\ AggDone < Len(obj.groups)
    /\ obj' = [obj EXCEPT !.acc =
                  master_update_scores(@, obj.groups[AggDone + 1].validator,
                                       obj.groups[AggDone + 1].result)]
    /\ UNCHANGED <<fs, last, edits, runs>>

\* what follows the loop
AggFinish ==
    /\ AggDone = Len(obj.groups)
    /\ last = NoRun
    /\ LET results == master_finish([i \in DOMAIN obj.groups |->
                                        obj.groups[i].validator], obj.acc)
       IN  last' = [script |-> obj.class,
                    returncode |-> IF results.overall_status = "PASS" THEN 0 ELSE 1,
                    report |-> <<results>>, aborted |-> FALSE, trace |-> <<>>]
    /\ UNCHANGED <<fs, obj, edits, runs>>

NextAgg ==
    \/ AggRunGroup
    \/ AggFinish

SpecAgg == InitAgg /\ [][NextAgg]_vars

(***************************************************************************)
(* The loop of run_complete_validation over a reordered self.validators:   *)
(* SpecOrder draws the order of the four groups, lets the tree be edited   *)
(* before the loop starts, runs one script per step in the drawn order and *)
(* finishes the consolidated result.                                       *)
(***************************************************************************)
Orders ==
    { o \in [DOMAIN master_validators -> DOMAIN master_validators] :
        \A i, j \in DOMAIN o : i # j => o[i] # o[j] }

OrderedValidators(o) == [i \in DOMAIN o |-> master_validators[o[i]]]

\* a project whose roles directory holds one new, empty role file
DraftRolesTree ==
    WriteFile(Mkdir(Rmdir(BaseTree, "roles"), "roles"),
              <<"roles", "data-scientist.md">>, Doc("none", {}, {}))

InitOrder ==
    /\ fs \in StartTrees \cup {DraftRolesTree}
    /\ last = NoRun
    /\ obj \in { [class |-> "master_validator.py", order |-> o, start |-> fs,
                  acc |-> NewResults] : o \in Orders }
    /\ edits = 0
    /\ runs = 0

OrderDone == Len(obj.acc.validator_results)

\* an edit of the tree before the aggregate run starts
OrderEdit ==
    /\ OrderDone = 0
    /\ EnvRemoveFile \/ EnvRmdir \/ EnvWriteSettings

\* one turn of the loop: the next script of the order runs on the tree
OrderRunGroup ==
    /\ OrderDone < Len(master_validators)
    /\ LET validator == OrderedValidators(obj.order)[OrderDone + 1]
           one == master_run_single_validator(fs, validator, FALSE)
       IN  /\ fs' = one.fs
           /\ obj' = [obj EXCEPT
                         !.start = IF OrderDone = 0 THEN fs ELSE @,
                         !.acc = master_update_scores(@, validator, one.result)]
    /\ UNCHANGED <<last, edits, runs>>

\* what follows the loop
OrderFinish ==
    /\ OrderDone = Len(master_validators)
    /\ last = NoRun
    /\ LET results == master_finish(OrderedValidators(obj.order), obj.acc)
       IN  last' = [script |-> obj.class,
                    returncode |-> IF results.overall_status = "PASS" THEN 0 ELSE 1,
                    report |-> <<results>>, aborted |-> FALSE, trace |-> <<>>]
    /\ UNCHANGED <<fs, obj, edits, runs>>

NextOrder ==
    \/ OrderEdit
    \/ OrderRunGroup
    \/ OrderFinish

SpecOrder == InitOrder /\ [][NextOrder]_vars

(***************************************************************************)
(* The keyword scans: SpecKeywords starts from the complete project with   *)
(* the words "Python" and "GCP" written into some of its Markdown files,   *)
(* and runs the practical and the workflow validator.                      *)
(***************************************************************************)
KeywordFiles ==
    { MainPath, <<"roles", "data-scientist.md">>, <<"roles", "qa-engineer.md">>,
      <<"tasks", "notebook-eda.md">>, <<"tasks", "code-generation.md">>,
      <<"prompts", "generate-eda-notebook.prompt.md">> }

KeywordContents == { "Python on GCP", "pandas notebook", "pipeline monitoring" }

\* the tree with a snippet added to each of the files
WithSnippet(tree, snippet, paths) ==
    [tree EXCEPT !.files = [p \in DOMAIN @ |->
        IF p \in paths /\ @[p].readable
        THEN [@[p] EXCEPT !.text = @ \cup {snippet}] ELSE @[p]]]

InitKeywords ==
    /\ fs \in { WithSnippet(BaseTree, snippet, paths) :
                  snippet \in KeywordContents, paths \in SUBSET KeywordFiles }
    /\ last = NoRun
    /\ obj = [class |-> "none", v |-> NewValidator]
    /\ edits = 0
    /\ runs = 0

NextKeywords ==
    \/ RunPractical
    \/ RunWorkflow

SpecKeywords == InitKeywords /\ [][NextKeywords]_vars

(***************************************************************************)
(* translate_research_prompts.py : ResearchPromptsTranslator               *)
(* The research tree is a record                                           *)
(*   base     whether .github/instructions/research_prompts exists         *)
(*   writable whether directories can be created beside it                 *)
(*   files    path -> [text, readable, writable], the files below it       *)
(*   backups  timestamp -> the files copied to research_prompts_backup_... *)
(* SpecTranslate steps apply_translations: the backup and the reading of   *)
(* the role prompts, one write per role file, the reading of the task      *)
(* prompts, one write per task file.                                       *)
(***************************************************************************)
ResearchNames ==
    { <<"roles", "data-scientist_research.md">>,
      <<"roles", "qa-engineer_research.md">>,
      <<"tasks", "code-generation_research.md">> }

\* a file of the tree that the glob *_research.md does not match
OtherResearchFile == <<"roles", "README.md">>

\* role_file.stem.replace("_research", "")
ResearchStem(p) ==
    CASE p[2] = "data-scientist_research.md" -> "data-scientist"
      [] p[2] = "qa-engineer_research.md" -> "qa-engineer"
      [] p[2] = "code-generation_research.md" -> "code-generation"
      [] OTHER -> "README"

translator_format_role_name(role_name) ==
    CASE role_name = "data-scientist" -> "Data Scientist"
      [] role_name = "qa-engineer" -> "QA Engineer"
      [] OTHER -> "Title Case"

translator_format_task_name(task_name) ==
    CASE task_name = "code-generation" -> "Code Generation"
      [] OTHER -> "Title Case"

\* the text of a template, by what was filled in
translator_create_role_template(role_name, display_name) ==
    [lang |-> "en", heading |-> "Research: Role:", name |-> role_name,
     display |-> display_name]

translator_create_task_template(task_name, display_name) ==
    [lang |-> "en", heading |-> "Research: Task:", name |-> task_name,
     display |-> display_name]

SpanishText == [lang |-> "es", heading |-> "Investigacion:", name |-> "",
                display |-> ""]

\* the paths of a directory that the glob matches, in the order of the scan
ResearchGlob(tree, d) ==
    LET matched == { p \in DOMAIN tree.files : p[1] = d /\ p \in ResearchNames }
        Order(s) == CHOOSE q \in [1..Cardinality(s) -> s] :
                        \A i, j \in 1..Cardinality(s) : i # j => q[i] # q[j]
    IN  IF tree.base THEN Order(matched) ELSE <<>>

\* translate_role_prompts / translate_task_prompts: raised, or the list of
\* (file, translated content)
translator_translate_prompts(tree, d) ==
    LET found == ResearchGlob(tree, d)
        Translated(p) ==
            IF d = "roles"
            THEN translator_create_role_template(
                     ResearchStem(p), translator_format_role_name(ResearchStem(p)))
            ELSE translator_create_task_template(
                     ResearchStem(p), translator_format_task_name(ResearchStem(p)))
    IN  IF \E i \in DOMAIN found : ~tree.files[found[i]].readable
        THEN [raised |-> TRUE, list |-> <<>>]
        ELSE [raised |-> FALSE,
              list |-> [i \in DOMAIN found |-> <<found[i], Translated(found[i])>>]]

\* create_backup: mkdir of the backup directory, then shutil.copytree, which
\* copies what it can and raises at the end if a file could not be copied
translator_create_backup(tree, stamp) ==
    LET old == IF stamp \in DOMAIN tree.backups THEN tree.backups[stamp]
               ELSE << >>
        \* a copy fails if the file cannot be read, or if the backup of an
        \* earlier run of the same second holds a read-only copy of it
        readable == { p \in DOMAIN tree.files :
                        /\ tree.files[p].readable
                        /\ p \in DOMAIN old => tree.files[p].writable }
        copied == [p \in DOMAIN old \cup readable |->
                      IF p \in readable THEN tree.files[p].text ELSE old[p]]
        With(files) == [tree EXCEPT !.backups =
                           [s \in DOMAIN @ \cup {stamp} |->
                               IF s = stamp THEN files ELSE @[s]]]
    IN  IF ~tree.writable /\ stamp \notin DOMAIN tree.backups
        THEN [fs |-> tree, raised |-> TRUE]
        ELSE IF ~tree.base THEN [fs |-> With(old), raised |-> TRUE]
        ELSE [fs |-> With(copied), raised |-> readable # DOMAIN tree.files]

NewTranslationReport(stamp) ==
    [timestamp |-> stamp, backup_created |-> FALSE, backup_path |-> <<>>,
     roles_translated |-> 0, tasks_translated |-> 0, files_processed |-> <<>>,
     errors |-> <<>>]

\* variant of apply_translations that goes on when create_backup raised
translator_apply_start_without_backup(tree, stamp, create_backup) ==
    LET report == NewTranslationReport(stamp)
        backup == translator_create_backup(tree, stamp)
        after == IF create_backup THEN backup.fs ELSE tree
        made == IF create_backup /\ ~backup.raised
                THEN [report EXCEPT !.backup_created = TRUE,
                                    !.backup_path = <<stamp>>]
                ELSE report
        roles == translator_translate_prompts(after, "roles")
    IN  IF roles.raised
        THEN [fs |-> after, pc |-> "done", pending |-> <<>>,
              report |-> [made EXCEPT !.errors = Append(@, <<"Error general">>)]]
        ELSE [fs |-> after, pc |-> "roles", pending |-> roles.list, report |-> made]

\* apply_translations up to the first write: the backup, then the reading
\* of the role prompts.  pc is where the method stands afterwards.
translator_apply_start(tree, stamp, create_backup) ==
    LET report == NewTranslationReport(stamp)
        backup == translator_create_backup(tree, stamp)
        after == IF create_backup THEN backup.fs ELSE tree
        made == IF create_backup
                THEN [report EXCEPT !.backup_created = TRUE,
                                    !.backup_path = <<stamp>>]
                ELSE report
        roles == translator_translate_prompts(after, "roles")
    IN  IF create_backup /\ backup.raised
        THEN [fs |-> backup.fs, pc |-> "done", pending |-> <<>>,
              report |-> [report EXCEPT !.errors = Append(@, <<"Error general">>)]]
        ELSE IF roles.raised
        THEN [fs |-> after, pc |-> "done", pending |-> <<>>,
              report |-> [made EXCEPT !.errors = Append(@, <<"Error general">>)]]
        ELSE [fs |-> after, pc |-> "roles", pending |-> roles.list, report |-> made]

\* one turn of a write loop: open(file_path, "w") and f.write
translator_write(tree, report, item, counter) ==
    IF tree.files[item[1]].writable
    THEN [fs |-> [tree EXCEPT !.files[item[1]].text = item[2]],
          report |-> [report EXCEPT
                         !.files_processed = Append(@, item[1]),
                         ![counter] = @ + 1]]
    ELSE [fs |-> tree,
          report |-> [report EXCEPT
                         !.errors = Append(@, <<"Error traduciendo", item[1]>>)]]

ResearchFileStates ==
    { [text |-> SpanishText, readable |-> TRUE, writable |-> TRUE],
      [text |-> SpanishText, readable |-> FALSE, writable |-> TRUE],
      [text |-> SpanishText, readable |-> TRUE, writable |-> FALSE] }

ResearchTrees ==
    { [base |-> TRUE, writable |-> w, files |-> f, backups |-> << >>] :
        w \in BOOLEAN,
        f \in UNION { [paths -> ResearchFileStates] :
                        paths \in SUBSET (ResearchNames \cup {OtherResearchFile}) } }
    \cup { [base |-> FALSE, writable |-> w, files |-> << >>, backups |-> << >>] :
             w \in BOOLEAN }

IdleTranslator == [class |-> "translate_research_prompts.py", pc |-> "idle"]

InitTranslate ==
    /\ fs \in ResearchTrees
    /\ last = NoRun
    /\ obj = IdleTranslator
    /\ edits = 0
    /\ runs = 0

\* apply_translations is called; the timestamp is that of an earlier run of
\* the same second or a new one
TranslateStart ==
    /\ obj.pc = "idle"
    /\ runs < MaxRuns
    /\ \E create_backup \in BOOLEAN, stamp \in { runs, IF runs > 0 THEN runs - 1 ELSE 0 } :
          LET go == translator_apply_start(fs, stamp, create_backup)
          IN  /\ fs' = go.fs
              /\ obj' = [class |-> obj.class, pc |-> go.pc, pending |-> go.pending,
                         report |-> go.report, create_backup |-> create_backup,
                         start |-> fs]
    /\ UNCHANGED <<last, edits, runs>>

TranslateWriteRole ==
    /\ obj.pc = "roles"
    /\ obj.pending # <<>>
    /\ LET go == translator_write(fs, obj.report, Head(obj.pending), "roles_translated")
       IN  /\ fs' = go.fs
           /\ obj' = [obj EXCEPT !.report = go.report, !.pending = Tail(@)]
    /\ UNCHANGED <<last, edits, runs>>

\* the role loop is over: translate_task_prompts
TranslateReadTasks ==
    /\ obj.pc = "roles"
    /\ obj.pending = <<>>
    /\ LET tasks == translator_translate_prompts(fs, "tasks")
       IN  obj' = IF tasks.raised
                  THEN [obj EXCEPT !.pc = "done",
                                   !.report.errors = Append(@, <<"Error general">>)]
                  ELSE [obj EXCEPT !.pc = "tasks", !.pending = tasks.list]
    /\ UNCHANGED <<fs, last, edits, runs>>

TranslateWriteTask ==
    /\ obj.pc = "tasks"
    /\ obj.pending # <<>>
    /\ LET go == translator_write(fs, obj.report, Head(obj.pending), "tasks_translated")
       IN  /\ fs' = go.fs
           /\ obj' = [obj EXCEPT !.report = go.report, !.pending = Tail(@)]
    /\ UNCHANGED <<last, edits, runs>>

\* return report
TranslateReturn ==
    /\ \/ obj.pc = "done"
       \/ obj.pc = "tasks" /\ obj.pending = <<>>
    /\ last' = [script |-> obj.class, returncode |-> 0, report |-> <<obj.report>>,
                aborted |-> FALSE, trace |-> <<>>]
    /\ obj' = IdleTranslator
    /\ runs' = runs + 1
    /\ UNCHANGED <<fs, edits>>

NextTranslate ==
    \/ TranslateStart
    \/ TranslateWriteRole
    \/ TranslateReadTasks
    \/ TranslateWriteTask
    \/ TranslateReturn

SpecTranslate == InitTranslate /\ [][NextTranslate]_vars

(***************************************************************************)
(* One validator object called more than once: SpecObject constructs an    *)
(* object of one of the three tallying classes and calls its validation    *)
(* method repeatedly, the tree being edited between the calls.             *)
(***************************************************************************)
\* the method on the accumulators v of the object; an exception of an
\* earlier call has been handled by the caller
ValidationMethod(class, tree, v) ==
    LET v0 == [v EXCEPT !.raised = FALSE]
    IN  CASE class = "comprehensive_validator.py" ->
                comprehensive_validate_all_on(tree, v0)
          [] class = "workflow_validator.py" ->
                workflow_validate_workflows_on(tree, v0)
          [] OTHER -> practical_validate_practical_orchestration_on(tree, v0)

ReportMethod(class, tree, v) ==
    CASE class = "comprehensive_validator.py" -> comprehensive_generate_report(v)
      [] class = "workflow_validator.py" -> workflow_generate_workflow_report(tree, v)
      [] OTHER -> practical_generate_practical_report(tree, v)

InitObject ==
    /\ fs \in StartTrees
    /\ last = NoRun
    /\ obj \in { [class |-> c, v |-> NewValidator] : c \in TallyScripts }
    /\ edits = 0
    /\ runs = 0

\* validate_all / validate_workflows / validate_practical_orchestration
CallValidate ==
    /\ runs < MaxRuns
    /\ LET v == ValidationMethod(obj.class, fs, obj.v)
       IN  /\ obj' = [obj EXCEPT !.v = v]
           /\ last' = [script |-> obj.class, returncode |-> 0,
                       report |-> IF v.raised THEN <<>>
                                  ELSE <<ReportMethod(obj.class, fs, v)>>,
                       aborted |-> v.raised, trace |-> <<>>]
    /\ runs' = runs + 1
    /\ UNCHANGED <<fs, edits>>

NextObject ==
    \/ EnvRemoveFile
    \/ EnvWriteFile
    \/ EnvRmdir
    \/ CallValidate

SpecObject == InitObject /\ [][NextObject]_vars

(***************************************************************************)
(* The scenarios of the workflow validator: SpecScenarios starts from the  *)
(* complete project without some of the role and task files the scenarios  *)
(* name, and runs the workflow validator.                                  *)
(***************************************************************************)
ScenarioFiles ==
    UNION { { <<"roles", Md(scenarios[i].role)>>, <<"tasks", Md(scenarios[i].task)>> } :
              i \in DOMAIN scenarios }

\* the tree without the files
WithoutFiles(tree, paths) ==
    [tree EXCEPT !.files = Restrict(@, DOMAIN @ \ paths)]

InitScenarios ==
    /\ fs \in { WithoutFiles(BaseTree, paths) : paths \in SUBSET ScenarioFiles }
    /\ last = NoRun
    /\ obj = [class |-> "none", v |-> NewValidator]
    /\ edits = 0
    /\ runs = 0

NextScenarios == RunWorkflow

SpecScenarios == InitScenarios /\ [][NextScenarios]_vars

(***************************************************************************)
(* copilot_best_practices_validator.py : the score.  A finding is a record *)
(* [what, text]: what was detected and the message.  SpecScore steps       *)
(* validate_all: _validate_vscode_configuration on the tree's              *)
(* settings.json, then the further _validate_ methods, whose analyses are  *)
(* drawn from bounded sets, then _calculate_overall_score.                 *)
(***************************************************************************)
NewBpResults ==
    [overall_score |-> 0, critical_issues |-> <<>>, strengths |-> <<>>,
     detailed_analysis |-> <<>>]

BpFindings(name, kind, n) ==
    [k \in 1..n |-> [what |-> <<name, kind, k>>, text |-> <<name, kind, k>>]]

BpAnalysis(name, strengths, issues) ==
    [name |-> name, strengths |-> strengths, issues |-> issues]

\* _validate_vscode_configuration; checked is the analysis of a settings
\* file that was parsed
best_practices_validate_vscode_configuration(tree, results, checked) ==
    LET Store(analysis) ==
            [results EXCEPT !.detailed_analysis = Append(@, analysis)]
        missing == [what |-> <<"vscode_config", "settings.json missing">>,
                    text |-> "CRITICO: No existe .vscode/settings.json"]
        missing_too == [what |-> <<"vscode_config", "settings.json missing">>,
                        text |-> "Archivo .vscode/settings.json no encontrado"]
        unparsed == [what |-> <<"vscode_config", "settings.json error">>,
                     text |-> "Error al parsear settings.json"]
    IN  IF tree.settings = <<>>
        THEN [Store(BpAnalysis("vscode_config", <<>>, <<missing>>))
                 EXCEPT !.critical_issues = Append(@, missing_too)]
        ELSE IF ~tree.settings[1].readable \/ tree.settings[1].parse # "ok"
        THEN Store(BpAnalysis("vscode_config", <<>>, <<unparsed>>))
        ELSE Store(checked)

\* _calculate_overall_score
best_practices_calculate_overall_score(results) ==
    LET analyses == results.detailed_analysis
        total_strengths ==
            Len(results.strengths)
            + Fold(LAMBDA n, analysis : n + Len(analysis.strengths), 0, analyses)
        total_issues ==
            Len(results.critical_issues)
            + Fold(LAMBDA n, analysis : n + Len(analysis.issues), 0, analyses)
        Extend(r, analysis) ==
            [r EXCEPT !.strengths = @ \o analysis.strengths,
                      !.critical_issues = @ \o analysis.issues]
        scored == [results EXCEPT !.overall_score =
                      IF total_strengths + total_issues > 0
                      THEN RoundTenths(total_strengths, total_strengths + total_issues)
                      ELSE 0]
    IN  Fold(Extend, scored, analyses)

BpFurtherAnalyses == << "file_structure", "roles_definition" >>

InitScore ==
    /\ fs \in { BaseTree, [BaseTree EXCEPT !.settings = <<>>],
                [BaseTree EXCEPT !.settings[1].parse = "error"] }
    /\ last = NoRun
    /\ obj = [class |-> "copilot_best_practices_validator.py", pc |-> "new",
              detected |-> NewBpResults, results |-> NewBpResults]
    /\ edits = 0
    /\ runs = 0

BpValidateVscodeConfiguration ==
    /\ obj.pc = "new"
    /\ \E s \in 0..MaxFindings, i \in 0..MaxFindings :
          obj' = [obj EXCEPT
                     !.pc = "analysing",
                     !.results = best_practices_validate_vscode_configuration(
                         fs, @, BpAnalysis("vscode_config",
                                           BpFindings("vscode_config", "strength", s),
                                           BpFindings("vscode_config", "issue", i)))]
    /\ UNCHANGED <<fs, last, edits, runs>>

\* one of the further _validate_ methods stores its analysis
BpValidateFurther ==
    /\ obj.pc = "analysing"
    /\ Len(obj.results.detailed_analysis) <= Len(BpFurtherAnalyses)
    /\ LET name == BpFurtherAnalyses[Len(obj.results.detailed_analysis)]
       IN  \E s \in 0..MaxFindings, i \in 0..MaxFindings :
              obj' = [obj EXCEPT !.results.detailed_analysis =
                         Append(@, BpAnalysis(name, BpFindings(name, "strength", s),
                                              BpFindings(name, "issue", i)))]
    /\ UNCHANGED <<fs, last, edits, runs>>

BpCalculateOverallScore ==
    /\ obj.pc = "analysing"
    /\ Len(obj.results.detailed_analysis) = Len(BpFurtherAnalyses) + 1
    /\ obj' = [obj EXCEPT !.pc = "scored",
                          !.detected = obj.results,
                          !.results = best_practices_calculate_overall_score(@)]
    /\ UNCHANGED <<fs, last, edits, runs>>

NextScore ==
    \/ BpValidateVscodeConfiguration
    \/ BpValidateFurther
    \/ BpCalculateOverallScore

SpecScore == InitScore /\ [][NextScore]_vars

(***************************************************************************)
(* research_prompts_validator.py : ResearchPromptsValidator                *)
(* The tree it reads is a record                                           *)
(*   base       whether .github/instructions/research_prompts exists       *)
(*   roles      whether research_prompts/roles exists                      *)
(*   tasks      whether research_prompts/tasks exists                      *)
(*   index      research_index.json: "missing", "unreadable", "not json",  *)
(*              "list" (valid JSON that is no object) or "ok"              *)
(*   referenced whether copilot-instructions.md mentions research_prompts  *)
(*   writable   whether files can be created in .github/instructions       *)
(*   saved      the analysis reports written there so far                  *)
(***************************************************************************)
IndexStates == { "missing", "unreadable", "not json", "list", "ok" }

ValidatorTrees ==
    { tree \in [base : BOOLEAN, roles : BOOLEAN, tasks : BOOLEAN,
                index : IndexStates, referenced : BOOLEAN,
                writable : BOOLEAN, saved : {0}] :
        ~tree.base => (~tree.roles /\ ~tree.tasks /\ tree.index = "missing") }

NewResearchReport ==
    [overall_status |-> "PENDING", analysis_results |-> <<>>,
     integration_assessment |-> <<>>, recommendations |-> <<>>]

\* validate_structure: the status and the number of issues
research_validate_structure(tree) ==
    IF ~tree.base THEN [name |-> "structure", status |-> "FAIL", issues |-> 1]
    ELSE LET issues == (IF tree.roles THEN 0 ELSE 1)
                       + (IF tree.tasks THEN 0 ELSE 1)
                       + (IF tree.index # "missing" THEN 0 ELSE 1)
         IN  [name |-> "structure",
              status |-> IF issues = 0 THEN "PASS" ELSE "FAIL",
              issues |-> issues]

\* analyze_index_file: every failure to read the index is caught
research_analyze_index_file(tree) ==
    IF tree.index = "ok"
    THEN [name |-> "index_analysis", status |-> "PASS", issues |-> 0]
    ELSE [name |-> "index_analysis", status |-> "FAIL", issues |-> 1]

\* analyze_coverage: its status is always PASS
research_analyze_coverage(tree) ==
    [name |-> "coverage", status |-> "PASS", issues |-> 0]

\* assess_integration_with_main_system
research_assess_integration_with_main_system(tree) ==
    [status |-> "ANALYSIS",
     reference_count |-> IF tree.referenced THEN 1 ELSE 0]

\* generate_recommendations
research_generate_recommendations ==
    << "INTEGRACION", "ACTIVACION", "REFERENCIAS", "DOCUMENTACION",
       "OPTIMIZACION", "CONSOLIDACION", "AUTOMATIZACION", "VALIDACION",
       "VALOR", "EVOLUCION", "FEEDBACK", "MANTENIMIENTO" >>

\* run_validation
research_run_validation(tree) ==
    LET structure_results == research_validate_structure(tree)
        index_results == research_analyze_index_file(tree)
    IN  IF structure_results.status = "FAIL"
        THEN [NewResearchReport EXCEPT
                 !.analysis_results = <<structure_results>>,
                 !.overall_status = "FAIL"]
        ELSE [overall_status |->
                  IF structure_results.status = "PASS" /\ index_results.status = "PASS"
                  THEN "ANALYSIS_COMPLETE" ELSE "ISSUES_FOUND",
              analysis_results |->
                  << structure_results, index_results,
                     research_analyze_coverage(tree) >>,
              integration_assessment |->
                  << research_assess_integration_with_main_system(tree) >>,
              recommendations |-> research_generate_recommendations]

\* print_report reads integration_assessment['accessibility'], which only
\* assess_integration_with_main_system sets
research_print_report_raises(report) == report.integration_assessment = <<>>

\* main: what the call did; code is what it returned
research_main(tree) ==
    LET report == research_run_validation(tree)
        Ended(raised, saved, code) ==
            [script |-> "research_prompts_validator.py", report |-> report,
             raised |-> raised, saved |-> saved, code |-> code]
    IN  IF research_print_report_raises(report)
        THEN Ended("KeyError", FALSE, -1)
        ELSE IF ~tree.writable THEN Ended("OSError", FALSE, -1)
        ELSE Ended("none", TRUE,
                     IF report.overall_status = "ANALYSIS_COMPLETE" THEN 0 ELSE 1)

InitResearch ==
    /\ fs \in ValidatorTrees
    /\ last = NoRun
    /\ obj = [class |-> "none", v |-> NewValidator]
    /\ edits = 0
    /\ runs = 0

RunResearchValidator ==
    /\ runs < MaxRuns
    /\ last' = research_main(fs)
    /\ fs' = [fs EXCEPT !.saved = IF last'.saved THEN @ + 1 ELSE @]
    /\ runs' = runs + 1
    /\ UNCHANGED <<obj, edits>>

\* the index is deleted, or the whole folder
ResearchRemoveIndex ==
    /\ edits < MaxEdits
    /\ fs.index # "missing"
    /\ fs' = [fs EXCEPT !.index = "missing"]
    /\ edits' = edits + 1
    /\ UNCHANGED <<last, obj, runs>>

ResearchRemoveFolder ==
    /\ edits < MaxEdits
    /\ fs.base
    /\ fs' = [fs EXCEPT !.base = FALSE, !.roles = FALSE, !.tasks = FALSE,
                        !.index = "missing"]
    /\ edits' = edits + 1
    /\ UNCHANGED <<last, obj, runs>>

NextResearch ==
    \/ RunResearchValidator
    \/ ResearchRemoveIndex
    \/ ResearchRemoveFolder

SpecResearch == InitResearch /\ [][NextResearch]_vars

(***************************************************************************)
(* fix_frontmatter.py : update_file_frontmatter                            *)
(* A file content and every string of a config is a sequence of pieces of  *)
(* text: the pieces "---", "tags:", "[", "]", ",", the double quote, the   *)
(* line break, the blank, and words holding none of these.                 *)
(***************************************************************************)
FmQuote == "\""
FmBreak == "\n"
FmBlank == " "
FmWhitespace == { FmBreak, FmBlank }

\* str.strip with the characters of chars
FmStrip(s, chars) ==
    LET kept == { i \in DOMAIN s : s[i] \notin chars }
    IN  IF kept = {} THEN <<>>
        ELSE SubSeq(s, CHOOSE i \in kept : \A j \in kept : i <= j,
                       CHOOSE i \in kept : \A j \in kept : j <= i)

\* str.split(sep)
RECURSIVE FmSplit(_, _)
FmSplit(s, sep) ==
    LET at == { i \in DOMAIN s : s[i] = sep }
    IN  IF at = {} THEN <<s>>
        ELSE LET i == CHOOSE k \in at : \A j \in at : k <= j
             IN  <<SubSeq(s, 1, i - 1)>> \o FmSplit(SubSeq(s, i + 1, Len(s)), sep)

\* sep.join(list)
FmJoin(list, sep) ==
    Fold(LAMBDA acc, i : IF i = 1 THEN list[i] ELSE acc \o sep \o list[i],
         <<>>, [i \in DOMAIN list |-> i])

FmQuoted(s) == <<FmQuote>> \o s \o <<FmQuote>>

\* the end of the blanks and line breaks that begin at position from
FmSkipWhitespace(s, from) ==
    LET stops == { i \in from..Len(s) : s[i] \notin FmWhitespace }
    IN  IF stops = {} THEN Len(s) + 1
        ELSE CHOOSE i \in stops : \A j \in stops : i <= j

\* re.search(r"tags:\s*\[(.*?)\]", content, re.DOTALL): <<>> or <<group 1>>
FmTagsMatch(content) ==
    LET Open(i) == FmSkipWhitespace(content, i + 1)
        starts == { i \in DOMAIN content :
                      /\ content[i] = "tags:"
                      /\ Open(i) <= Len(content)
                      /\ content[Open(i)] = "["
                      /\ \E j \in (Open(i) + 1)..Len(content) : content[j] = "]" }
    IN  IF starts = {} THEN <<>>
        ELSE LET i == CHOOSE k \in starts : \A j \in starts : k <= j
                 closes == { j \in (Open(i) + 1)..Len(content) : content[j] = "]" }
                 close == CHOOSE k \in closes : \A j \in closes : k <= j
             IN  << SubSeq(content, Open(i) + 1, close - 1) >>

\* the existing tags
FmExistingTags(content) ==
    LET tags_match == FmTagsMatch(content)
        pieces == FmSplit(tags_match[1], ",")
    IN  IF \A i \in DOMAIN content : content[i] # "tags:" THEN <<>>
        ELSE IF tags_match = <<>> THEN <<>>
        ELSE [i \in DOMAIN pieces |->
                 FmStrip(FmStrip(pieces[i], FmWhitespace), {FmQuote})]

\* re.sub(r"^---.*?---\s*", "", content, flags=re.DOTALL)
FmWithoutFrontmatter(content) ==
    LET closes == { j \in 2..Len(content) : content[j] = "---" }
    IN  IF content = <<>> \/ Head(content) # "---" \/ closes = {} THEN content
        ELSE LET close == CHOOSE k \in closes : \A j \in closes : k <= j
             IN  SubSeq(content, FmSkipWhitespace(content, close + 1), Len(content))

\* a config is a record of its keys and their values
FmNewFrontmatter(config, existing_tags) ==
    LET List(items) ==
            <<"[">> \o FmJoin([i \in DOMAIN items |-> FmQuoted(items[i])],
                              <<",", FmBlank>>) \o <<"]">>
        Line(key, value) == <<<<key, FmBlank>> \o value>>
        lines ==
            << <<"---">> >>
            \o (IF "applyTo" \in config.keys
                THEN Line("applyTo:", List(config.applyTo)) ELSE <<>>)
            \o (IF "role" \in config.keys
                THEN Line("role:", FmQuoted(config.role)) ELSE <<>>)
            \o (IF "task" \in config.keys
                THEN Line("task:", FmQuoted(config.task)) ELSE <<>>)
            \o Line("description:", FmQuoted(config.description))
            \o (IF existing_tags # <<>>
                THEN Line("tags:", List(existing_tags)) ELSE <<>>)
            \o Line("priority:", FmQuoted(config.priority))
            \o << <<"---">> >>
    IN  FmJoin(lines, <<FmBreak>>)

\* update_file_frontmatter: the content it writes
update_file_frontmatter(content, config) ==
    FmNewFrontmatter(config, FmExistingTags(content))
    \o <<FmBreak, FmBreak>> \o FmWithoutFrontmatter(content)

\* two of the configs of update_prompt_frontmatter
FmConfigs ==
    { [keys |-> {"applyTo", "role", "description", "priority"},
       applyTo |-> << <<"testing">>, <<"validation">> >>,
       role |-> <<"qa-engineer">>, task |-> <<>>,
       description |-> <<"Prompt", FmBlank, "examples">>,
       priority |-> <<"high">>],
      [keys |-> {"applyTo", "task", "description", "priority"},
       applyTo |-> << <<"eda">> >>,
       role |-> <<>>, task |-> <<"notebook-eda">>,
       description |-> <<"Prompt", FmBlank, "examples">>,
       priority |-> <<"high">>] }

MaxBodyLen == 3

FmPieces == { "---", FmBreak, "text", "tags:", "[", "]", ",", FmQuote }

FmBodies == UNION { [1..n -> FmPieces] : n \in 0..MaxBodyLen }

\* frontmatter blocks as the files carry them
FmBlocks ==
    { <<>> }
    \cup { <<"---", FmBreak>> \o inner \o <<"---">> \o after :
             inner \in { <<>>,
                         <<"tags:", FmBlank, "[", "text", "]", FmBreak>>,
                         <<"tags:", FmBlank, "[", FmQuote, "text", FmQuote, ",",
                           FmBlank, FmQuote, "more", FmQuote, "]", FmBreak>> },
             after \in { <<FmBreak>>, <<FmBreak, FmBreak>> } }

FmContents ==
    { before \o block \o body :
        before \in { <<>>, <<FmBreak>> }, block \in FmBlocks, body \in FmBodies }

InitFrontmatter ==
    /\ fs \in FmContents
    /\ last = NoRun
    /\ obj \in FmConfigs
    /\ edits = 0
    /\ runs = 0

\* update_file_frontmatter(file_path, config) on the file whose content is fs
UpdateFileFrontmatter ==
    /\ runs < MaxRuns
    /\ fs' = update_file_frontmatter(fs, obj)
    /\ last' = [script |-> "fix_frontmatter.py", before |-> fs, after |-> fs']
    /\ runs' = runs + 1
    /\ UNCHANGED <<obj, edits>>

NextFrontmatter == UpdateFileFrontmatter

SpecFrontmatter == InitFrontmatter /\ [][NextFrontmatter]_vars

(***************************************************************************)
(* Properties.                                                             *)
(***************************************************************************)
LastReport == last.report[1]

\* the last run was one of the three tallying validators and built a report
HasTally == last.script \in TallyScripts /\ last.report # <<>>

\* the last run was an aggregate run of the master validator
HasMaster == last.script = "master_validator.py" /\ last.report # <<>>

GroupStatuses ==
    { LastReport.validator_results[i].result.status :
        i \in DOMAIN LastReport.validator_results }

\* C1: in the reports of the comprehensive, workflow and practical
\* validators the status is FAIL exactly when at least one error was
\* recorded, and PASS otherwise, whatever the number of warnings.
C1_StatusFailIffError ==
    HasTally =>
        /\ LastReport.status \in {"PASS", "FAIL"}
        /\ LastReport.status = "FAIL" <=> Len(LastReport.error_details) > 0

\* a run that recorded warnings and no error, and passes
C1_Witness ==
    /\ HasTally
    /\ Len(LastReport.warning_details) > 0
    /\ Len(LastReport.error_details) = 0
    /\ LastReport.status = "PASS"

\* the runs of the three tallying scripts an aggregate run made
GroupRuns ==
    { i \in DOMAIN last.trace :
        master_validators[i].script \in TallyScripts /\ last.trace[i].ran }

\* C2: the comprehensive, workflow, practical and master scripts exit with
\* 0 exactly when the run built its report with status PASS and was not
\* aborted by an exception; every other run exits with a non-zero code.
\* This holds of the script run last and of every script the master ran.
C2_ExitZeroIffPass ==
    /\ last.script \in TallyScripts =>
           last.returncode = 0 <=>
              (~last.aborted /\ last.report # <<>> /\ LastReport.status = "PASS")
    /\ last.script = "master_validator.py" =>
           /\ last.returncode = 0 <=>
                 (~last.aborted /\ LastReport.overall_status = "PASS")
           /\ \A i \in GroupRuns :
                 last.trace[i].returncode = 0 <=>
                    /\ ~last.trace[i].aborted
                    /\ last.trace[i].report # <<>>
                    /\ last.trace[i].report[1].status = "PASS"

\* an aggregate run on a tree whose only defect is the missing main
\* instruction file: the comprehensive script records one error, reports
\* FAIL and exits with 1, and so does the master
C2_Witness ==
    /\ HasMaster
    /\ ~FileExists(fs, MainPath)
    /\ 1 \in GroupRuns
    /\ ~last.trace[1].aborted
    /\ last.trace[1].report[1].errors = 1
    /\ last.trace[1].report[1].status = "FAIL"
    /\ last.trace[1].returncode = 1
    /\ last.returncode = 1

\* C3: after an aggregate run, overall_status is FAIL exactly when the
\* status recorded for at least one group is FAIL; otherwise it is PASS.
C3_OverallFailIffGroupFail ==
    HasMaster =>
        /\ Len(LastReport.validator_results) = Len(master_validators)
        /\ LastReport.overall_status =
              IF "FAIL" \in GroupStatuses THEN "FAIL" ELSE "PASS"

\* an aggregate run in which one group failed and another passed
C3_Witness ==
    /\ HasMaster
    /\ "FAIL" \in GroupStatuses
    /\ "PASS" \in GroupStatuses
    /\ LastReport.overall_status = "FAIL"

SumSeq(s) == Fold(LAMBDA a, x : a + x, 0, s)

AggWeightList == [i \in DOMAIN obj.groups |-> obj.groups[i].validator.weight]
AggRateList == [i \in DOMAIN obj.groups |-> obj.groups[i].result.success_rate]

\* total weight, and the sum of success_rate x weight, of the groups run
AggTotalWeight == SumSeq(AggWeightList)
AggWeightedSum ==
    SumSeq([i \in DOMAIN obj.groups |-> AggRateList[i] * AggWeightList[i]])

Abs(n) == IF n < 0 THEN -n ELSE n

\* C4: overall_percentage is the weighted mean of the groups' success
\* rates rounded to one decimal (it is within half a tenth of the exact
\* quotient), it is 0 when the total weight is 0, and weights 3 and 1 with
\* success rates 100 and 0 give 75.
C4_WeightedMean ==
    (HasMaster /\ obj.class = "master_validator.py") =>
        /\ IF AggTotalWeight = 0 THEN LastReport.overall_percentage = 0
           ELSE 2 * Abs(LastReport.overall_percentage * AggTotalWeight
                        - AggWeightedSum) <= AggTotalWeight
        /\ (AggWeightList = <<3, 1>> /\ AggRateList = <<1000, 0>>)
              => LastReport.overall_percentage = 750

\* the aggregate run of the example: weights 3 and 1, rates 100 and 0
C4_Witness ==
    /\ HasMaster
    /\ obj.class = "master_validator.py"
    /\ AggWeightList = <<3, 1>>
    /\ AggRateList = <<1000, 0>>
    /\ LastReport.overall_percentage = 750
    /\ LastReport.overall_status = "FAIL"

\* C5: whenever the master validator records a group's status and
\* success_rate from a report file, that report is the one the group's
\* script wrote during this aggregate run.
C5_RecordedFromThisRun ==
    HasMaster =>
        \A i \in DOMAIN LastReport.validator_results :
            LET result == LastReport.validator_results[i].result
                run == last.trace[i]
            IN  result.details # <<>> =>
                    /\ run.ran
                    /\ ~run.aborted
                    /\ run.report = result.details

\* the report a tallying validator would build on a tree (<<>> if it aborts)
ReportOn(tree, script) ==
    LET out == RunScript(tree, script)
    IN  IF out.aborted THEN <<>> ELSE out.report

\* C6: a run of a validator script leaves every scanned directory, file
\* and setting as it was, and with it the report each validator builds.
C6_RunIsReadOnly ==
    [][ runs' = runs + 1 =>
            /\ fs'.dirs = fs.dirs
            /\ fs'.files = fs.files
            /\ fs'.settings = fs.settings
            /\ \A script \in TallyScripts :
                   ReportOn(fs', script) = ReportOn(fs, script) ]_vars

\* C7: the number of findings a validator tallies is the same on every
\* tree: an outside modification never changes total_checks.
C7_SameTotalOnEveryTree ==
    [][ edits' = edits + 1 =>
            \A script \in TallyScripts :
                (ReportOn(fs, script) # <<>> /\ ReportOn(fs', script) # <<>>) =>
                    ReportOn(fs', script)[1].total_checks =
                        ReportOn(fs, script)[1].total_checks ]_vars

\* C8: in every report of the three tallying validators total_checks is
\* successes + errors + warnings, the counts are those of the lists,
\* success_rate lies between 0 and 100, and it is 0 when total_checks is 0.
C8_ReportArithmetic ==
    HasTally =>
        /\ LastReport.total_checks =
              LastReport.successes + LastReport.errors + LastReport.warnings
        /\ LastReport.errors = Len(LastReport.error_details)
        /\ LastReport.warnings = Len(LastReport.warning_details)
        /\ LastReport.success_rate >= 0
        /\ LastReport.success_rate <= 1000
        /\ LastReport.total_checks = 0 => LastReport.success_rate = 0

\* the report of an object that recorded nothing
C8_Witness ==
    /\ HasTally
    /\ obj.class \in TallyScripts
    /\ obj.v.success_count = 0 /\ obj.v.errors = <<>> /\ obj.v.warnings = <<>>
    /\ LastReport.total_checks = 0
    /\ LastReport.success_rate = 0

\* the outside modification creates a directory or the main instruction
\* file that was missing, and changes nothing else
FixesMissing ==
    /\ edits' = edits + 1
    /\ fs'.settings = fs.settings
    /\ \/ /\ fs'.files = fs.files
          /\ \E d \in Range(expected_dirs) : d \notin fs.dirs /\ fs'.dirs = fs.dirs \cup {d}
       \/ /\ fs'.dirs = fs.dirs
          /\ ~FileExists(fs, MainPath)
          /\ DOMAIN fs'.files = DOMAIN fs.files \cup {MainPath}
          /\ \A p \in DOMAIN fs.files : fs'.files[p] = fs.files[p]

\* C9: creating the missing directory or file of one failing finding never
\* lowers the success_rate of the validator's next report.
C9_FixNeverLowersRate ==
    [][ FixesMissing =>
            \A script \in TallyScripts :
                (ReportOn(fs, script) # <<>> /\ ReportOn(fs', script) # <<>>) =>
                    ReportOn(fs', script)[1].success_rate >=
                        ReportOn(fs, script)[1].success_rate ]_vars

\* C10: a run of a tallying validator always ends with its report built
\* and written to its report file, whatever files of the tree cannot be
\* read or parsed.
C10_ReportAlwaysPersisted ==
    (last.script \in TallyScripts /\ DirExists(fs, "instructions")) =>
        /\ ~last.aborted
        /\ last.report # <<>>
        /\ report_files(last.script) \in DOMAIN fs.reports
        /\ fs.reports[report_files(last.script)] = LastReport

(***************************************************************************)
(* Settings that cannot be parsed                                          *)
(***************************************************************************)
SettingsUnparsable(tree) ==
    /\ tree.settings # <<>>
    /\ tree.settings[1].readable
    /\ tree.settings[1].parse = "error"

\* validate_all without the groups named in skip
ComprehensiveGroups(tree, skip) ==
    LET Group(name, v) ==
            IF v.raised \/ name \in skip THEN v
            ELSE CASE name = "main" ->
                          comprehensive_validate_main_instruction_file(tree, v)
                   [] name = "settings" ->
                          comprehensive_validate_vscode_settings(tree, v)
                   [] name = "directories" ->
                          comprehensive_validate_directory_structure(tree, v)
                   [] name = "roles" -> comprehensive_validate_role_files(tree, v)
                   [] name = "tasks" -> comprehensive_validate_task_files(tree, v)
                   [] name = "prompts" ->
                          comprehensive_validate_prompt_files(tree, v)
    IN  Group("prompts", Group("tasks", Group("roles", Group("directories",
            Group("settings", Group("main", NewValidator))))))

ComprehensiveOtherGroups(tree) == ComprehensiveGroups(tree, {"settings"})

\* a step that is a run of the script
RunOf(script) == runs' = runs + 1 /\ last'.script = script

\* C11: a run of the comprehensive or of the fixed validator on a tree
\* whose settings.json exists but is no JSON records exactly one failure
\* for the settings group and no success for it, and the findings of all
\* the other groups are in the result.
C11_UnparsableSettingsOneFail ==
    [][ SettingsUnparsable(fs) /\ ~last'.aborted =>
          /\ RunOf("comprehensive_validator.py") =>
                LET others == ComprehensiveOtherGroups(fs)
                    report == last'.report[1]
                IN  /\ report.successes = others.success_count
                    /\ report.errors = Len(others.errors) + 1
                    /\ report.warnings = Len(others.warnings)
                    /\ Cardinality({ i \in DOMAIN report.error_details :
                                       report.error_details[i] = <<"settings_json">> }) = 1
          /\ RunOf("validate_instructions_fixed.py") =>
                LET report == last'.report[1]
                IN  /\ report.groups = 6
                    /\ report.failed >= 1 ]_vars

(***************************************************************************)
(* A required directory is missing                                         *)
(***************************************************************************)
\* the rules the comprehensive validator scopes under a directory: one per
\* expected role file, one per key task file
RulesUnder(d) ==
    CASE d = "roles" -> Len(expected_roles)
      [] d = "tasks" -> Len(key_tasks)
      [] OTHER -> 0

\* the checks the orchestration validator makes per expected file of a
\* directory: that it exists, and its quality
OrchRulesUnder(d) ==
    CASE d = "roles" -> 2 * Len(orch_expected_roles)
      [] d = "tasks" -> 2 * Len(essential_tasks)
      [] d = "prompts" -> 2 * Len(essential_prompts)
      [] OTHER -> 0

\* C12: a run of the comprehensive or of the orchestration validator on a
\* tree without the roles, tasks or prompts directory reports every rule
\* scoped under the missing directory as a failure, and the result still
\* holds the findings of the rules scoped elsewhere.
C12_MissingDirectoryFailsItsRules ==
    [][ \A d \in { "roles", "tasks", "prompts" } :
          (~DirExists(fs, d) /\ ~last'.aborted) =>
            /\ RunOf("comprehensive_validator.py") =>
                  LET others == ComprehensiveGroups(fs, {d})
                      report == last'.report[1]
                  IN  /\ report.errors + report.warnings >=
                             Len(others.errors) + Len(others.warnings) + RulesUnder(d)
                      /\ report.successes = others.success_count
            /\ RunOf("orchestration_validator.py") =>
                  last'.report[1].total_failed >= OrchRulesUnder(d) ]_vars

(***************************************************************************)
(* Comments and trailing commas in settings.json                           *)
(***************************************************************************)
\* the text the validator read and the text it handed to json.loads
SettingsRead == last.script # "none" /\ obj.class = "text"
CleanText == last.report[1]

\* C13: whatever the document, the cleaning a validator applies before
\* json.loads leaves the content of every string literal as it was.
C13_StringLiteralsUnchanged ==
    SettingsRead => Literals(CleanText) = Literals(obj.v)

\* a document with a block comment and with a comma before its closing
\* brace, whose string literals hold no slash
BlockCommentAndTrailingComma(text) ==
    /\ Lex(text).blocks > 0
    /\ RemoveTrailingCommas(Lex(text).code) # Lex(text).code
    /\ \A i \in DOMAIN Literals(text) :
           \A k \in DOMAIN Literals(text)[i] : Literals(text)[i][k] # "/"

\* C14: every validator that reads settings.json gets a document with a
\* block comment and a trailing comma through json.loads.
C14_BlockCommentAndTrailingCommaParse ==
    (SettingsRead /\ BlockCommentAndTrailingComma(obj.v)) => last.returncode = 0

(***************************************************************************)
(* The setting rules                                                       *)
(***************************************************************************)
SettingsParsed(tree) ==
    /\ tree.settings # <<>>
    /\ tree.settings[1].readable
    /\ tree.settings[1].parse = "ok"

WithUseInstructionFiles(tree, val) ==
    [tree EXCEPT !.settings[1].useInstructionFiles = val]

\* the other way for the rule to fail
OtherFailure(val) == IF val = "absent" THEN "false" ELSE "absent"

\* C15: in a run of the comprehensive or of the orchestration validator
\* the rule on useInstructionFiles passes exactly when the key is there
\* with the boolean true, and the findings of a run in which the key is
\* missing differ from those of a run in which it is false.
C15_SettingRuleExactValue ==
    [][ (SettingsParsed(fs) /\ ~last'.aborted) =>
          LET val == fs.settings[1].useInstructionFiles
          IN  /\ RunOf("comprehensive_validator.py") =>
                    /\ (\E i \in DOMAIN last'.report[1].error_details :
                            last'.report[1].error_details[i] =
                                <<"useInstructionFiles_off">>) <=> val # "true"
                    /\ val \in { "absent", "false" } =>
                          last'.report[1].error_details #
                              comprehensive_validate_all(
                                  WithUseInstructionFiles(fs, OtherFailure(val))).errors
              /\ RunOf("orchestration_validator.py") =>
                    (last'.report[1].total_failed =
                         orchestration_run_validation(
                             WithUseInstructionFiles(fs, "true")).total_failed)
                    <=> val = "true" ]_vars

(***************************************************************************)
(* Frontmatter field rules                                                 *)
(***************************************************************************)
\* the role and prompt files whose frontmatter the comprehensive validator
\* looks at
FrontmatterFiles(tree) ==
    { p \in DOMAIN tree.files :
        \/ p[1] = "roles" /\ p[2] \in Range(expected_roles)
        \/ p[1] = "prompts" /\ p[2] \in Range(PromptNames) }

FrontmatterFields(p) ==
    IF p[1] = "roles" THEN Range(required_fields) ELSE Range(recommended_fields)

\* the findings of a report that name the file
FindingsAbout(report, name) ==
    { f \in Range(report.error_details) \cup Range(report.warning_details) :
        f[Len(f)] = name }

\* C16: in a run of the comprehensive validator, a role or prompt file
\* that has a frontmatter mapping gets a failure for exactly the fields
\* the mapping lacks, and a file without a frontmatter block, or with a
\* block that is not closed or does not parse, gets a failure of its own.
C16_FrontmatterFieldRule ==
    [][ (RunOf("comprehensive_validator.py") /\ ~last'.aborted) =>
          \A p \in FrontmatterFiles(fs) :
              LET content == fs.files[p]
                  findings == FindingsAbout(last'.report[1], p[2])
              IN  IF content.fm = "map"
                  THEN \A field \in FrontmatterFields(p) :
                           field \in content.fields <=>
                               ~\E f \in findings : Len(f) = 3 /\ f[2] = field
                  ELSE findings # {} ]_vars

(***************************************************************************)
(* Exit codes of the check-list validators                                 *)
(***************************************************************************)
\* the number of failed checks in the result of a check-list validator
FailedChecks(run) ==
    IF run.script = "orchestration_validator.py"
    THEN run.report[1].total_failed ELSE run.report[1].failed

\* C17: a run of the orchestration or of the fixed validator ends with
\* exit code 0 only if it recorded no failed check, and never when
\* settings.json is missing, unreadable or no JSON.
C17_ExitZeroOnlyWithoutFailures ==
    [][ (RunOf("orchestration_validator.py")
         \/ RunOf("validate_instructions_fixed.py")) =>
          /\ last'.returncode = 0 =>
                ~last'.aborted /\ FailedChecks(last') = 0
          /\ ~SettingsParsed(fs) => last'.returncode # 0 ]_vars

\* the consolidated result of the aggregate run in list order on the tree
\* the reordered run started from
ListOrderResults == master_run_complete_validation(obj.start, 0, {}).results

\* the reordered run's entry for the group that is i-th in list order
ReorderedEntry(i) ==
    LastReport.validator_results[CHOOSE k \in DOMAIN obj.order : obj.order[k] = i]

\* C18: whatever the order in which the four groups are run, the
\* consolidated result is that of the run in list order: each group's
\* status and success_rate, overall_status and overall_percentage.
C18_OrderIndependent ==
    (HasMaster /\ obj.class = "master_validator.py") =>
        /\ \A i \in DOMAIN master_validators :
              /\ ReorderedEntry(i).name = ListOrderResults.validator_results[i].name
              /\ ReorderedEntry(i).result.status
                    = ListOrderResults.validator_results[i].result.status
              /\ ReorderedEntry(i).result.success_rate
                    = ListOrderResults.validator_results[i].result.success_rate
        /\ LastReport.overall_status = ListOrderResults.overall_status
        /\ LastReport.overall_percentage = ListOrderResults.overall_percentage

\* the part of C18 about the groups' own results and the overall status
C18_GroupsOrderIndependent ==
    (HasMaster /\ obj.class = "master_validator.py") =>
        /\ \A i \in DOMAIN master_validators :
              ReorderedEntry(i).result = ListOrderResults.validator_results[i].result
        /\ LastReport.overall_status = ListOrderResults.overall_status

(***************************************************************************)
(* Keyword rules                                                           *)
(***************************************************************************)
\* the keyword occurs, lowercased, in one of the files
Occurs(tree, keyword, paths) ==
    \E p \in paths : FileExists(tree, p) /\ InLower(keyword, tree.files[p])

\* the report holds a Fail finding of the rule about the keyword
KeywordFails(report, finding) ==
    \E i \in DOMAIN report.warning_details : report.warning_details[i] = finding

\* the successes the practical validator counts outside its keyword rules
PracticalOtherSuccesses(tree) ==
    LET Test(v, test) == practical_execute_practical_test(tree, v, test)
        m2(v) == practical_validate_settings_instruction_sync(tree, v)
        m3(v) == practical_validate_prompt_discoverability(tree, v)
    IN  Then(Then(Fold(Test, NewValidator, practical_tests), m2), m3).success_count

\* C19: in a run of the practical validator every keyword of the context
\* and of the real-world lists gets a Fail finding exactly when it occurs in
\* none of the Markdown files under the instructions directory, and a Pass
\* otherwise; in a run of the workflow validator every expected tool of a
\* scenario gets a Fail finding exactly when it occurs neither in the
\* scenario's role file nor in its task file.
C19_KeywordPassIffOccurs ==
    [][ /\ (RunOf("practical_validator.py") /\ ~last'.aborted) =>
              LET report == last'.report[1]
                  files == InstructionMdFiles(fs)
                  keywords == Range(key_context) \cup Range(real_world_elements)
              IN  /\ \A k \in Range(key_context) :
                        KeywordFails(report, <<"context_not_propagated", k>>)
                            <=> ~Occurs(fs, k, files)
                  /\ \A k \in Range(real_world_elements) :
                        KeywordFails(report, <<"real_world_element_missing", k>>)
                            <=> ~Occurs(fs, k, files)
                  /\ report.successes = PracticalOtherSuccesses(fs)
                        + Cardinality({ k \in keywords : Occurs(fs, k, files) })
        /\ (RunOf("workflow_validator.py") /\ ~last'.aborted) =>
              \A i \in DOMAIN scenarios :
                  LET s == scenarios[i]
                      paths == { <<"roles", Md(s.role)>>, <<"tasks", Md(s.task)>> }
                  IN  (\A p \in paths : FileExists(fs, p)) =>
                        \A tool \in Range(s.expected_tools) :
                            KeywordFails(last'.report[1],
                                         <<"tool_missing", tool, s.name>>)
                                <=> ~Occurs(fs, tool, paths) ]_vars

\* the parts of C19 about the real-world list and about the expected tools
C19_RealWorldAndTools ==
    [][ /\ (RunOf("practical_validator.py") /\ ~last'.aborted) =>
              \A k \in Range(real_world_elements) :
                  KeywordFails(last'.report[1], <<"real_world_element_missing", k>>)
                      <=> ~Occurs(fs, k, InstructionMdFiles(fs))
        /\ (RunOf("workflow_validator.py") /\ ~last'.aborted) =>
              \A i \in DOMAIN scenarios :
                  LET s == scenarios[i]
                      paths == { <<"roles", Md(s.role)>>, <<"tasks", Md(s.task)>> }
                  IN  (\A p \in paths : FileExists(fs, p)) =>
                        \A tool \in Range(s.expected_tools) :
                            KeywordFails(last'.report[1],
                                         <<"tool_missing", tool, s.name>>)
                                <=> ~Occurs(fs, tool, paths) ]_vars

(***************************************************************************)
(* The aggregate run, script by script                                     *)
(***************************************************************************)
ConfiguredScripts == [i \in DOMAIN master_validators |-> master_validators[i].script]

\* the consolidated report the aggregate run left on disk
ConsolidatedWritten(tree, run) ==
    /\ ~run.aborted
    /\ "latest_master_validation_report.json" \in DOMAIN tree.reports
    /\ tree.reports["latest_master_validation_report.json"].status
          = run.report[1].overall_status
    /\ tree.reports["latest_master_validation_report.json"].overall_percentage
          = run.report[1].overall_percentage

TranslatingWithBackup == obj.class = "translate_research_prompts.py"
                         /\ obj.pc # "idle" /\ obj.create_backup

\* the files of the tree whose text is no longer what it was at the call
Overwritten ==
    { p \in DOMAIN fs.files : fs.files[p].text # obj.start.files[p].text }

\* the backup directory of this call holds a copy of every file of the
\* tree as it was at the call
BackupComplete ==
    /\ obj.report.timestamp \in DOMAIN fs.backups
    /\ DOMAIN fs.backups[obj.report.timestamp] = DOMAIN obj.start.files
    /\ \A p \in DOMAIN obj.start.files :
          fs.backups[obj.report.timestamp][p] = obj.start.files[p].text

\* C21: during apply_translations(create_backup=True) a prompt file has
\* been overwritten only if the backup of the whole tree was created, and
\* when create_backup failed no file is overwritten, roles_translated and
\* tasks_translated are 0 and report['errors'] holds the failure.
C21_BackupBeforeOverwrite ==
    TranslatingWithBackup =>
        /\ (Overwritten # {} \/ obj.report.files_processed # <<>>) =>
              obj.report.backup_created /\ BackupComplete
        /\ ~obj.report.backup_created =>
              /\ Overwritten = {}
              /\ obj.report.roles_translated = 0
              /\ obj.report.tasks_translated = 0
              /\ obj.report.errors = << <<"Error general">> >>
              /\ obj.pc = "done"

\* a call whose backup succeeded, that has overwritten a role file and
\* could not write another one
C21_Witness ==
    /\ TranslatingWithBackup
    /\ obj.report.backup_created
    /\ BackupComplete
    /\ Overwritten # {}
    /\ obj.report.roles_translated = 1
    /\ obj.report.errors # <<>>

(***************************************************************************)
(* Groups that did not report                                              *)
(***************************************************************************)
\* the groups of the aggregate run whose script was missing or timed out
GroupsNotRun == { i \in DOMAIN last.trace : ~last.trace[i].ran }

MasterSummary == LastReport.summary[1]

\* every script of the aggregate run ran to its end and exited with 0, and
\* those that built a tally report recorded no error
AllScriptsSucceeded ==
    \A i \in DOMAIN last.trace :
        /\ last.trace[i].ran
        /\ last.trace[i].returncode = 0
        /\ ~last.trace[i].aborted
        /\ (master_validators[i].script \in TallyScripts) =>
               last.trace[i].report[1].errors = 0

\* C23: when all four scripts of an aggregate run succeed, the summary
\* reports validators_passed equal to validators_executed.
C23_AllSucceededAllPassed ==
    (HasMaster /\ AllScriptsSucceeded) =>
        MasterSummary.validators_passed = MasterSummary.validators_executed

\* C24: in the consolidated result of every aggregate run critical_issues
\* is at least 1 exactly when overall_status, which is project_status, is
\* FAIL, and validators_passed + critical_issues is at most
\* validators_executed.
C24_CriticalIssuesIffFail ==
    HasMaster =>
        /\ MasterSummary.project_status = LastReport.overall_status
        /\ MasterSummary.critical_issues >= 1 <=> LastReport.overall_status = "FAIL"
        /\ MasterSummary.validators_passed + MasterSummary.critical_issues
              <= MasterSummary.validators_executed

\* an aggregate run with a failed group, a passed group and a group whose
\* script was missing or timed out
C24_Witness ==
    /\ HasMaster
    /\ MasterSummary.critical_issues >= 1
    /\ MasterSummary.validators_passed >= 1
    /\ GroupsNotRun # {}
    /\ LastReport.overall_status = "FAIL"

(***************************************************************************)
(* The accumulators of a validator object                                  *)
(***************************************************************************)
IsPrefix(s, u) == Len(s) <= Len(u) /\ \A i \in DOMAIN s : u[i] = s[i]

\* what a new object of the class records on the tree
FreshFindings == ValidationMethod(obj.class, fs, NewValidator)

\* C25: no call of validate_all, validate_workflows or
\* validate_practical_orchestration resets or shortens the errors list, the
\* warnings list or success_count of the object, and the report of a call
\* counts the findings of the earlier calls on the object besides those of
\* this call.
C25_AccumulatorsOnlyGrow ==
    [][ /\ IsPrefix(obj.v.errors, obj'.v.errors)
        /\ IsPrefix(obj.v.warnings, obj'.v.warnings)
        /\ obj'.v.success_count >= obj.v.success_count
        /\ (runs' = runs + 1 /\ ~last'.aborted) =>
              /\ last'.report[1].errors
                    = Len(obj.v.errors) + Len(FreshFindings.errors)
              /\ last'.report[1].warnings
                    = Len(obj.v.warnings) + Len(FreshFindings.warnings)
              /\ last'.report[1].successes
                    = obj.v.success_count + FreshFindings.success_count ]_vars

\* after the second call on an object: its report counts more errors than
\* a new object finds on the tree
C25_Witness ==
    /\ runs = 2
    /\ last.script \in TallyScripts
    /\ ~last.aborted
    /\ Len(FreshFindings.errors) > 0
    /\ last.report[1].errors > Len(FreshFindings.errors)
    /\ last.report[1].errors = Len(obj.v.errors)

(***************************************************************************)
(* The errors of the workflow validator                                    *)
(***************************************************************************)
\* the findings of a list that name the scenario
AboutScenario(findings, scenario) ==
    { i \in DOMAIN findings : findings[i][Len(findings[i])] = scenario.name }

\* C26: in a run of the workflow validator the number of errors is
\* total_scenarios - scenarios_validated; a scenario has exactly one error,
\* and no finding of its tool and dependency checks, if its role file or
\* its task file is missing, and no error otherwise; workflow_status is
\* PASS exactly when the role and task files of all scenarios exist.
C26_ErrorsAreMissingScenarios ==
    [][ (RunOf("workflow_validator.py") /\ ~last'.aborted) =>
          LET report == last'.report[1]
              stats == report.statistics[1]
          IN  /\ stats.total_scenarios = Len(scenarios)
              /\ report.errors = stats.total_scenarios - stats.scenarios_validated
              /\ \A i \in DOMAIN scenarios :
                    IF workflow_scenario_valid(fs, scenarios[i])
                    THEN AboutScenario(report.error_details, scenarios[i]) = {}
                    ELSE /\ Cardinality(AboutScenario(report.error_details,
                                                      scenarios[i])) = 1
                         /\ AboutScenario(report.warning_details, scenarios[i]) = {}
              /\ report.errors = Cardinality(UNION {
                    AboutScenario(report.error_details, scenarios[i]) :
                        i \in DOMAIN scenarios })
              /\ report.status = "PASS" <=>
                    \A p \in ScenarioFiles : FileExists(fs, p) ]_vars

\* a run on a tree where one scenario lacks its task file only and another
\* lacks both files: two errors, two of four scenarios validated
C26_Witness ==
    /\ last.script = "workflow_validator.py"
    /\ ~last.aborted
    /\ last.report[1].errors = 2
    /\ last.report[1].statistics[1].scenarios_validated = 2
    /\ last.report[1].status = "FAIL"
    /\ FileExists(fs, <<"roles", "data-scientist.md">>)
    /\ ~FileExists(fs, <<"tasks", "notebook-eda.md">>)
    /\ ~FileExists(fs, <<"roles", "qa-engineer.md">>)
    /\ ~FileExists(fs, <<"tasks", "test-generation.md">>)

\* what the analyses and the lists held when _calculate_overall_score began
DetectedStrengths ==
    { obj.detected.strengths[k].what : k \in DOMAIN obj.detected.strengths }
    \cup UNION { { a.strengths[k].what : k \in DOMAIN a.strengths } :
                 a \in Range(obj.detected.detailed_analysis) }

DetectedIssues ==
    { obj.detected.critical_issues[k].what : k \in DOMAIN obj.detected.critical_issues }
    \cup UNION { { a.issues[k].what : k \in DOMAIN a.issues } :
                 a \in Range(obj.detected.detailed_analysis) }

ListedOnce(list, detected) ==
    /\ Len(list) = Cardinality(detected)
    /\ \A w \in detected : Cardinality({ k \in DOMAIN list : list[k].what = w }) = 1

\* C27: after validate_all of the best-practices validator every detected
\* strength and every detected issue appears exactly once in the final
\* strengths and critical_issues lists and is counted exactly once in
\* overall_score, which is strengths / (strengths + issues) x 100 rounded to
\* one decimal (kept in tenths), within 0..100, and 0 when nothing was
\* recorded; also when .vscode/settings.json is missing.
C27_EachFindingCountedOnce ==
    (obj.class = "copilot_best_practices_validator.py" /\ obj.pc = "scored") =>
        LET s == Cardinality(DetectedStrengths)
            i == Cardinality(DetectedIssues)
        IN  /\ ListedOnce(obj.results.strengths, DetectedStrengths)
            /\ ListedOnce(obj.results.critical_issues, DetectedIssues)
            /\ obj.results.overall_score =
                   IF s + i > 0 THEN RoundTenths(s, s + i) ELSE 0
            /\ obj.results.overall_score \in 0..1000

\* the same with .vscode/settings.json present
C27_WithSettingsFile ==
    (fs.settings # <<>>) => C27_EachFindingCountedOnce

\* the last step was a call of main of research_prompts_validator.py
ResearchRan == last.script = "research_prompts_validator.py"

AnalysesRun(report) ==
    { report.analysis_results[k].name : k \in DOMAIN report.analysis_results }

StatusOf(report, name) ==
    The({ report.analysis_results[k].status :
            k \in { j \in DOMAIN report.analysis_results :
                      report.analysis_results[j].name = name } })

\* what the claim says of run_validation: the status is never PENDING; it
\* is FAIL iff validate_structure failed, and then no further analysis ran
\* and no recommendation is set; otherwise it is ANALYSIS_COMPLETE iff the
\* index analysis passed, and ISSUES_FOUND if not
C28_RunValidationStatus ==
    ResearchRan =>
        LET report == last.report
            failed == StatusOf(report, "structure") = "FAIL"
        IN  /\ report.overall_status \in {"FAIL", "ANALYSIS_COMPLETE", "ISSUES_FOUND"}
            /\ (report.overall_status = "FAIL") <=> failed
            /\ failed =>
                  /\ AnalysesRun(report) = {"structure"}
                  /\ report.integration_assessment = <<>>
                  /\ report.recommendations = <<>>
            /\ ~failed =>
                  /\ AnalysesRun(report) = {"structure", "index_analysis", "coverage"}
                  /\ report.integration_assessment # <<>>
                  /\ (report.overall_status = "ANALYSIS_COMPLETE")
                        <=> (StatusOf(report, "index_analysis") = "PASS")
                  /\ (report.overall_status = "ISSUES_FOUND")
                        <=> (StatusOf(report, "index_analysis") # "PASS")

\* C28: run_validation of ResearchPromptsValidator ends with overall_status
\* FAIL, ANALYSIS_COMPLETE or ISSUES_FOUND as validate_structure and the
\* index analysis decide, and main returns an exit code, which is 0 iff the
\* status is ANALYSIS_COMPLETE.
C28_StatusAndExitCode ==
    /\ C28_RunValidationStatus
    /\ ResearchRan =>
          /\ last.raised = "none"
          /\ (last.code = 0) <=> (last.report.overall_status = "ANALYSIS_COMPLETE")

\* the exit code alone, on a tree where the report can be written
C28_ExitCodeWhereWritable ==
    (ResearchRan /\ fs.writable) =>
        (last.code = 0) <=> (last.report.overall_status = "ANALYSIS_COMPLETE")

\* C29: update_file_frontmatter is idempotent: the second application to a
\* file leaves its content exactly as the first application wrote it, for
\* every file content and config.
C29_SecondApplicationChangesNothing ==
    (last.script = "fix_frontmatter.py" /\ runs = 2) => last.after = last.before

\* a file that begins with neither a line break nor a blank and whose tags
\* hold no "---" is written the same by a second application
C29_WhenFileBeginsWithText ==
    (/\ runs = 0
     /\ fs \in FmContents
     /\ fs # <<>> => Head(fs) \notin FmWhitespace
     /\ \A tag \in Range(FmExistingTags(fs)) : "---" \notin Range(tag))
        => \A config \in FmConfigs :
              update_file_frontmatter(update_file_frontmatter(fs, config), config)
                 = update_file_frontmatter(fs, config)

====
